---- MODULE Spec2Model ----
(***************************************************************************)
(* Model of the goridium RockBlock driver (package goridium, lines 552-992 *)
(* of src/examples/example.go): the command/reply primitives over a serial *)
(* port, the connectivity polling loops and the session state machine.     *)
(*                                                                         *)
(* Strings are sequences of byte values (Go strings are byte sequences).   *)
(* The serial device is the environment: each write to the port is paired  *)
(* with the device's reaction to it (whether the write succeeds, the lines *)
(* the device then emits, and whether the stream stays open).              *)
(***************************************************************************)
EXTENDS Integers, Sequences, FiniteSets, TLC

VARIABLES
    port,    \* the serial port: the scanner's unread tokens and the stream's state
    op,      \* the operation the caller invoked on the RockBlock
    status,  \* "running", "done" (returned), "hung" (blocked in a read), "panic"
    conn,    \* locals of AttemptConnection
    stack,   \* call stack of AttemptSession invocations (innermost last)
    result,  \* what the top-level call returned
    obs      \* history of what the device has done so far (observation only)

vars == <<port, op, status, conn, stack, result, obs>>

---------------------------------------------------------------------------
(* Bounds of the model *)

\* The number of messages the device holds at most: an invocation of
\* AttemptSession nested this deep is told that none is queued any more.
MaxDepth == 5

---------------------------------------------------------------------------
(* Byte strings *)

CR == 13

\* "OK"
StrOK == <<79, 75>>
\* "ERROR"
StrERROR == <<69, 82, 82, 79, 82>>
\* "AT+CSQ"
CmdCSQ == <<65, 84, 43, 67, 83, 81>>
\* "+CSQ"
TagCSQ == <<43, 67, 83, 81>>
\* "AT-MSSTM"
CmdMSSTM == <<65, 84, 45, 77, 83, 83, 84, 77>>
\* "-MSSTM:"
TagMSSTM == <<45, 77, 83, 83, 84, 77, 58>>
\* "AT+SBDIX"
CmdSBDIX == <<65, 84, 43, 83, 66, 68, 73, 88>>
\* "+SBDIX:"
TagSBDIX == <<43, 83, 66, 68, 73, 88, 58>>
\* "AT+SBDD0"
CmdSBDD0 == <<65, 84, 43, 83, 66, 68, 68, 48>>
\* "AT+SBDRB"
CmdSBDRB == <<65, 84, 43, 83, 66, 68, 82, 66>>
\* ", "
SepFields == <<44, 32>>

Min(S) == CHOOSE x \in S : \A y \in S : x <= y

\* A UTF-8 continuation byte at place i of s.
Cont(s, i) == i <= Len(s) /\ s[i] \in 128..191

\* The number of bytes of the UTF-8 sequence that starts at place i of s, 0
\* when no well-formed sequence starts there.
RuneWidth(s, i) ==
    IF s[i] < 128 THEN 1
    ELSE IF s[i] \in 194..223 /\ Cont(s, i + 1) THEN 2
    ELSE IF /\ s[i] \in 224..239 /\ Cont(s, i + 1) /\ Cont(s, i + 2)
            /\ s[i] = 224 => s[i + 1] >= 160
            /\ s[i] = 237 => s[i + 1] <= 159
         THEN 3
    ELSE IF /\ s[i] \in 240..244 /\ Cont(s, i + 1) /\ Cont(s, i + 2) /\ Cont(s, i + 3)
            /\ s[i] = 240 => s[i + 1] >= 144
            /\ s[i] = 244 => s[i + 1] <= 143
         THEN 4
    ELSE 0

\* The rune that for ... range reads at place i of s: the code point of a
\* well-formed sequence, and U+FFFD for a byte that starts none.
RuneAt(s, i) ==
    CASE RuneWidth(s, i) = 1 -> s[i]
      [] RuneWidth(s, i) = 2 -> (s[i] - 192) * 64 + (s[i + 1] - 128)
      [] RuneWidth(s, i) = 3 ->
            (s[i] - 224) * 4096 + (s[i + 1] - 128) * 64 + (s[i + 2] - 128)
      [] RuneWidth(s, i) = 4 ->
            (s[i] - 240) * 262144 + (s[i + 1] - 128) * 4096
            + (s[i + 2] - 128) * 64 + (s[i + 3] - 128)
      [] OTHER -> 65533

\* unicode.IsSpace of the code point r
IsSpace(r) ==
    r \in {9, 10, 11, 12, 13, 32, 133, 160, 5760, 8232, 8233, 8239, 8287, 12288} \cup 8192..8202

\* strings.TrimSpace, at the front: the place of the first rune of s, from
\* place i on, that is no white space (Len(s) + 1 when there is none)
RECURSIVE SpaceEnd(_, _)
SpaceEnd(s, i) ==
    IF i > Len(s) THEN i
    ELSE IF RuneWidth(s, i) > 0 /\ IsSpace(RuneAt(s, i)) THEN SpaceEnd(s, i + RuneWidth(s, i))
    ELSE i

\* utf8.DecodeLastRuneInString on places lo..hi of s, whose last byte is not
\* ASCII: the nearest place before hi, at most 3 back, of a byte that is no
\* continuation byte (0 when there is none)
LastStart(s, lo, hi) ==
    IF \E j \in lo..(hi - 1) : j >= hi - 3 /\ s[j] \notin 128..191
    THEN CHOOSE j \in lo..(hi - 1) :
            /\ j >= hi - 3 /\ s[j] \notin 128..191
            /\ \A k \in (j + 1)..(hi - 1) : s[k] \in 128..191
    ELSE 0

\* The width of the last rune of places lo..hi of s when it is white space,
\* 0 when it is not: a well-formed sequence has to end exactly at hi.
LastSpace(s, lo, hi) ==
    IF s[hi] < 128 THEN (IF IsSpace(s[hi]) THEN 1 ELSE 0)
    ELSE IF /\ LastStart(s, lo, hi) > 0
            /\ RuneWidth(s, LastStart(s, lo, hi)) = hi - LastStart(s, lo, hi) + 1
            /\ IsSpace(RuneAt(s, LastStart(s, lo, hi)))
         THEN hi - LastStart(s, lo, hi) + 1
    ELSE 0

\* strings.TrimSpace, at the back: the place of the last byte of places
\* lo..hi of s that is left once the white space runes at its end are cut
RECURSIVE SpaceStart(_, _, _)
SpaceStart(s, lo, hi) ==
    IF hi < lo THEN hi
    ELSE IF LastSpace(s, lo, hi) = 0 THEN hi
    ELSE SpaceStart(s, lo, hi - LastSpace(s, lo, hi))

\* strings.TrimSpace: s without the white space runes (unicode.IsSpace) at
\* its front and at its back
TrimSpace(s) == SubSeq(s, SpaceEnd(s, 1), SpaceStart(s, SpaceEnd(s, 1), Len(s)))

\* strings.Index: 0-based position of the first occurrence of sub, or -1
Index(s, sub) ==
    LET hits == {i \in 0..(Len(s) - Len(sub)) : SubSeq(s, i + 1, i + Len(sub)) = sub}
    IN  IF hits = {} THEN -1 ELSE Min(hits)

\* strings.Split with a non-empty separator
RECURSIVE Split(_, _)
Split(s, sep) ==
    LET i == Index(s, sep)
    IN  IF i < 0 THEN <<s>>
        ELSE <<SubSeq(s, 1, i)>> \o Split(SubSeq(s, i + Len(sep) + 1, Len(s)), sep)

\* strings.Replace(s, old, "", 1): the first occurrence of old removed
RemoveFirst(s, old) ==
    LET i == Index(s, old)
    IN  IF i < 0 THEN s
        ELSE SubSeq(s, 1, i) \o SubSeq(s, i + Len(old) + 1, Len(s))

\* string(b) for a byte b: the UTF-8 encoding of the code point b
ByteToString(b) ==
    IF b < 128 THEN <<b>> ELSE <<192 + (b \div 64), 128 + (b % 64)>>

MaxInt32 == 2147483647

\* value of one digit character, 255 when it is none
DigitVal(c) ==
    IF c \in 48..57 THEN c - 48
    ELSE IF c \in 97..122 THEN c - 97 + 10
    ELSE IF c \in 65..90 THEN c - 65 + 10
    ELSE 255

\* the digits of s in the given base, accumulated onto acc; st is "ok", "bad"
\* (a character that is no digit of the base, or a magnitude above 2^31), or
\* "min" when the magnitude is exactly 2^31
RECURSIVE ParseDigits(_, _, _)
ParseDigits(s, base, acc) ==
    IF s = <<>> THEN [st |-> "ok", v |-> acc]
    ELSE LET d == DigitVal(s[1])
             q == (MaxInt32 - d) \div base
             r == (MaxInt32 - d) % base
             rest == SubSeq(s, 2, Len(s))
         IN  IF d >= base THEN [st |-> "bad", v |-> 0]
             ELSE IF acc <= q THEN ParseDigits(rest, base, acc * base + d)
             ELSE IF acc = q + 1 /\ r = base - 1 /\ rest = <<>>
                  THEN [st |-> "min", v |-> MaxInt32]
             ELSE [st |-> "bad", v |-> 0]

\* strconv.ParseInt(s, base, 32) for base 10 or 16; err is "nil" or
\* "numerror" (a *strconv.NumError, for a syntax or a range error alike)
ParseInt(s, base) ==
    LET neg == s # <<>> /\ s[1] = 45
        signed == s # <<>> /\ s[1] \in {43, 45}
        digits == IF signed THEN SubSeq(s, 2, Len(s)) ELSE s
        p == ParseDigits(digits, base, 0)
    IN  IF digits = <<>> \/ p.st = "bad" THEN [err |-> "numerror", v |-> 0]
        ELSE IF p.st = "min"
             THEN IF neg THEN [err |-> "nil", v |-> -MaxInt32 - 1]
                  ELSE [err |-> "numerror", v |-> 0]
        ELSE [err |-> "nil", v |-> IF neg THEN -p.v ELSE p.v]

---------------------------------------------------------------------------
(* The port and the command/reply primitives *)

\* A freshly opened port: nothing to read, stream open.
NewPort == [rx |-> <<>>, end |-> "open"]

\* The port p with an empty trace tx of the writes made on it: the operators
\* below thread this record through a call, so that tx ends up holding the
\* writes of that call, in order.
Traced(p) == [rx |-> p.rx, end |-> p.end, tx |-> <<>>]

\* The port of a traced port.
Untraced(t) == [rx |-> t.rx, end |-> t.end]

\* What a call on the port yields: the port afterwards, the value returned
\* (r), the error returned, and whether the call is blocked in a read that
\* will never complete (in which case it never returns).
Res(t, r, err, blocked) == [t |-> t, r |-> r, err |-> err, blocked |-> blocked]

\* rb.Send: one Port.Write of data.  dev is the device's reaction to it.
Send(t, data, dev) ==
    IF dev.wr = "fail" \/ t.end = "closed"
    THEN Res([rx |-> t.rx, end |-> t.end, tx |-> Append(t.tx, data)], <<>>, "write", FALSE)
    ELSE IF t.end = "open"
    THEN Res([rx |-> t.rx \o dev.lines, end |-> dev.end, tx |-> Append(t.tx, data)],
             <<>>, "nil", FALSE)
    ELSE Res([rx |-> t.rx, end |-> t.end, tx |-> Append(t.tx, data)], <<>>, "nil", FALSE)

\* rb.ReadLine: the first scanner token that is non-empty once trimmed.  When
\* the tokens run out the scanner blocks on an open stream and stops on a
\* stream that ended (at end of file or with a read error alike); in the
\* latter case the empty string is returned with a nil error.
ReadLine(t) ==
    LET full == {i \in 1..Len(t.rx) : TrimSpace(t.rx[i]) # <<>>}
    IN  IF full # {}
        THEN Res([rx |-> SubSeq(t.rx, Min(full) + 1, Len(t.rx)), end |-> t.end, tx |-> t.tx],
                 TrimSpace(t.rx[Min(full)]), "nil", FALSE)
        ELSE Res([rx |-> <<>>, end |-> t.end, tx |-> t.tx], <<>>, "nil", t.end = "open")

\* rb.Expect, from the line l it read
Expected(l, expected) ==
    IF l.blocked THEN l
    ELSE IF l.err # "nil" THEN Res(l.t, <<>>, l.err, FALSE)
    ELSE IF l.r # expected THEN Res(l.t, <<>>, "mismatch", FALSE)
    ELSE Res(l.t, <<>>, "nil", FALSE)

\* rb.Expect
Expect(t, expected) == Expected(ReadLine(t), expected)

\* rb.SendAndReadReply, from the outcome e of expecting the echo
ReplyAfterEcho(e) ==
    IF e.blocked \/ e.err # "nil" THEN e ELSE ReadLine(e.t)

\* rb.SendAndReadReply, from the outcome s of sending the command
EchoThenReply(s, command) ==
    IF s.err # "nil" THEN s ELSE ReplyAfterEcho(Expect(s.t, command))

\* rb.SendAndReadReply
SendAndReadReply(t, command, dev) ==
    EchoThenReply(Send(t, command \o <<CR>>, dev), command)

\* rb.GetSignalStrength, from the parse p of the digit
SignalValue(t, p) ==
    IF p.err # "nil" THEN Res(t, -1, p.err, FALSE) ELSE Res(t, p.v, "nil", FALSE)

\* rb.GetSignalStrength, from the outcome e of expecting OK
SignalDigit(e, reply) ==
    IF e.blocked \/ e.err # "nil" THEN Res(e.t, -1, e.err, e.blocked)
    ELSE SignalValue(e.t, ParseInt(ByteToString(reply[6]), 10))

\* SignalReply accepting a reply of 6 characters or more
SignalReplyAnyLength(sr) ==
    IF sr.blocked \/ sr.err # "nil" THEN Res(sr.t, -1, sr.err, sr.blocked)
    ELSE IF Index(sr.r, TagCSQ) < 0 \/ Len(sr.r) < 6 THEN Res(sr.t, -1, "unexpected", FALSE)
    ELSE SignalDigit(Expect(sr.t, StrOK), sr.r)

\* rb.GetSignalStrength, from the outcome sr of SendAndReadReply
SignalReply(sr) ==
    IF sr.blocked \/ sr.err # "nil" THEN Res(sr.t, -1, sr.err, sr.blocked)
    ELSE IF Index(sr.r, TagCSQ) < 0 \/ Len(sr.r) # 6 THEN Res(sr.t, -1, "unexpected", FALSE)
    ELSE SignalDigit(Expect(sr.t, StrOK), sr.r)

\* rb.GetSignalStrength
GetSignalStrength(t, dev) == SignalReply(SendAndReadReply(t, CmdCSQ, dev))

\* rb.IsNetworkTimeValid, from the outcome e of expecting OK
TimeShape(e, reply) ==
    IF e.blocked \/ e.err # "nil" THEN e
    ELSE IF Index(reply, TagMSSTM) < 0 \/ Len(reply) # 16 THEN Res(e.t, <<>>, "unexpected", FALSE)
    ELSE e

\* rb.IsNetworkTimeValid, from the outcome sr of SendAndReadReply
TimeReply(sr) ==
    IF sr.blocked \/ sr.err # "nil" THEN sr ELSE TimeShape(Expect(sr.t, StrOK), sr.r)

\* rb.IsNetworkTimeValid
IsNetworkTimeValid(t, dev) == TimeReply(SendAndReadReply(t, CmdMSSTM, dev))

\* rb.ClearMoBuffer, from the outcome sr of SendAndReadReply
Cleared(sr) ==
    IF sr.blocked \/ sr.err # "nil" THEN Res(sr.t, <<>>, sr.err, sr.blocked)
    ELSE Expect(sr.t, StrOK)

\* rb.ClearMoBuffer
ClearMoBuffer(t, dev) == Cleared(SendAndReadReply(t, CmdSBDD0, dev))

\* IridiumEpoch / 1000: the constant is 1399818235000 milliseconds, which the
\* integers of the model checker cannot hold; it is a multiple of 1000.
IridiumEpochSeconds == 1399818235

\* rb.GetNetworkTime, from the outcome e of expecting OK.  reply[8:] of a
\* reply shorter than 8 bytes is a slice out of range: the error "panic".
\* (IridiumEpoch + time * 90) / 1000 is taken in parts, to stay in range.
NetworkTime(e, reply) ==
    IF e.blocked \/ e.err # "nil" THEN Res(e.t, -1, e.err, e.blocked)
    ELSE IF Index(reply, TagMSSTM) < 0 THEN Res(e.t, -1, "unexpected", FALSE)
    ELSE IF Len(reply) < 8 THEN Res(e.t, -1, "panic", FALSE)
    ELSE IF ParseInt(SubSeq(reply, 9, Len(reply)), 16).err # "nil"
         THEN Res(e.t, -1, "nonetworktime", FALSE)
    ELSE Res(e.t,
             IridiumEpochSeconds
             + 9 * (ParseInt(SubSeq(reply, 9, Len(reply)), 16).v \div 100)
             + (9 * (ParseInt(SubSeq(reply, 9, Len(reply)), 16).v % 100)) \div 100,
             "nil", FALSE)

\* rb.GetNetworkTime, from the outcome sr of SendAndReadReply
NetworkTimeReply(sr) ==
    IF sr.blocked \/ sr.err # "nil" THEN Res(sr.t, -1, sr.err, sr.blocked)
    ELSE NetworkTime(Expect(sr.t, StrOK), sr.r)

\* rb.GetSerialIdentifier, from the outcome sr of SendAndReadReply
SerialReply(sr) ==
    IF sr.blocked \/ sr.err # "nil" THEN Res(sr.t, <<>>, sr.err, sr.blocked)
    ELSE IF Expect(sr.t, StrOK).blocked \/ Expect(sr.t, StrOK).err # "nil"
         THEN Res(Expect(sr.t, StrOK).t, <<>>, Expect(sr.t, StrOK).err,
                  Expect(sr.t, StrOK).blocked)
    ELSE Res(Expect(sr.t, StrOK).t, sr.r, "nil", FALSE)

\* rb.EnableEcho, rb.DisableFlowControl, rb.DisableRingAlerts and rb.Ping,
\* from the outcome sr of SendAndReadReply: a reply other than OK is the
\* failure of that function.
Acknowledged(sr, failure) ==
    IF sr.blocked \/ sr.err # "nil" THEN Res(sr.t, <<>>, sr.err, sr.blocked)
    ELSE IF sr.r # StrOK THEN Res(sr.t, <<>>, failure, FALSE)
    ELSE Res(sr.t, <<>>, "nil", FALSE)

\* MtPayload without the trimming of what remains of the line
MtPayloadUntrimmed(line) ==
    LET message == RemoveFirst(line, CmdSBDRB \o <<CR>>)
    IN  IF Len(message) > 4 THEN SubSeq(message, 3, Len(message) - 2) ELSE <<>>

\* rb.ProcessMtMessage: the message carried by the line that was read
MtPayload(line) ==
    LET message == TrimSpace(RemoveFirst(line, CmdSBDRB \o <<CR>>))
    IN  IF Len(message) > 4 THEN SubSeq(message, 3, Len(message) - 2) ELSE <<>>

\* rb.ProcessMtMessage, from the outcome e of expecting OK
MtConfirmed(e, message) ==
    IF e.blocked THEN e
    ELSE IF e.err # "nil" THEN Res(e.t, <<>>, "expectedok", FALSE)
    ELSE Res(e.t, message, "nil", FALSE)

\* rb.ProcessMtMessage, from the line l it read
MtFramed(l) ==
    IF l.blocked \/ l.err # "nil" THEN Res(l.t, <<>>, l.err, l.blocked)
    ELSE MtConfirmed(Expect(l.t, StrOK), MtPayload(l.r))

\* rb.ProcessMtMessage, from the outcome s of sending the command
MtRequested(s) ==
    IF s.err # "nil" THEN s ELSE MtFramed(ReadLine(s.t))

\* rb.ProcessMtMessage
ProcessMtMessage(t, dev) == MtRequested(Send(t, CmdSBDRB \o <<CR>>, dev))

\* The zero SbdixReply.
NoReply ==
    [MoStatus |-> 0, Msn |-> 0, MtStatus |-> 0, MtMsn |-> 0, MtLength |-> 0, MtQueued |-> 0]

\* ParseSbdixReply, from the fields of the reply: the first field that is no
\* integer is an error; fewer than six integers is an index out of range.
ParsedFields(fields) ==
    IF \E i \in 1..Len(fields) : ParseInt(fields[i], 10).err # "nil"
    THEN [sr |-> NoReply, err |-> "numerror", panic |-> FALSE]
    ELSE IF Len(fields) < 6
    THEN [sr |-> NoReply, err |-> "nil", panic |-> TRUE]
    ELSE [sr |-> [MoStatus |-> ParseInt(fields[1], 10).v,
                  Msn |-> ParseInt(fields[2], 10).v,
                  MtStatus |-> ParseInt(fields[3], 10).v,
                  MtMsn |-> ParseInt(fields[4], 10).v,
                  MtLength |-> ParseInt(fields[5], 10).v,
                  MtQueued |-> ParseInt(fields[6], 10).v],
          err |-> "nil", panic |-> FALSE]

\* ParseSbdixReply
ParseSbdixReply(reply) ==
    IF Len(reply) < 7 THEN [sr |-> NoReply, err |-> "nil", panic |-> TRUE]
    ELSE ParsedFields(Split(TrimSpace(SubSeq(reply, 8, Len(reply))), SepFields))

---------------------------------------------------------------------------
(* The device *)

\* One reaction of the device to a write: whether the write succeeds, the
\* lines the device then emits (as the scanner will deliver them), and
\* whether the stream is still open after them.
Reaction(wr, lines, end) == [wr |-> wr, lines |-> lines, end |-> end]

\* "-MSSTM: 0a1b2c3d": a time reply, 16 characters
LineTimeValid == TagMSSTM \o <<32, 48, 97, 49, 98, 50, 99, 51, 100>>
\* "-MSSTM: no network service"
LineTimeNoService == TagMSSTM \o <<32, 110, 111, 32, 110, 101, 116, 119, 111, 114,
                                   107, 32, 115, 101, 114, 118, 105, 99, 101>>
\* "0a1b2c3d-MSSTM:+": 16 characters that do not start with the tag
LineTimeShifted == <<48, 97, 49, 98, 50, 99, 51, 100>> \o TagMSSTM \o <<43>>

\* The device answers AT-MSSTM (echo, one reply line, OK) without a valid time.
InvalidTimeAnswers ==
    { Reaction("ok", <<CmdMSSTM, LineTimeNoService, StrOK>>, "open"),
      Reaction("ok", <<<<>>, CmdMSSTM, <<32>>,
                      TagMSSTM \o <<48, 97, 49, 98, 50, 99, 51, 100, 32>>, <<>>, StrOK>>, "open"),
      Reaction("ok", <<CmdMSSTM, StrERROR, StrOK>>, "open") }

\* The device answers AT-MSSTM with a valid time.
ValidTimeAnswers ==
    { Reaction("ok", <<CmdMSSTM, LineTimeValid, StrOK>>, "open"),
      Reaction("ok", <<<<>>, CmdMSSTM, <<>>, <<32>> \o LineTimeValid, <<>>, StrOK>>, "open") }

MsstmReactions ==
    InvalidTimeAnswers \cup ValidTimeAnswers \cup
    { Reaction("ok", <<CmdMSSTM, StrERROR>>, "open"),
      Reaction("ok", <<CmdMSSTM, LineTimeValid>>, "eof"),
      Reaction("ok", <<CmdMSSTM, LineTimeValid, StrERROR>>, "open"),
      Reaction("fail", <<>>, "open") }

\* "+CSQ:" followed by the given bytes
LineCsq(tail) == TagCSQ \o <<58>> \o tail

\* The device answers AT+CSQ with echo, "+CSQ:d" and OK.
SignalAnswers == { Reaction("ok", <<CmdCSQ, LineCsq(<<48 + d>>), StrOK>>, "open") : d \in {0, 1, 2, 5} }

CsqReactions ==
    SignalAnswers \cup
    { Reaction("ok", <<<<>>, CmdCSQ, <<>>, LineCsq(<<51>>) \o <<32>>, <<>>, StrOK>>, "open"),
      Reaction("ok", <<CmdCSQ, LineCsq(<<53, 53>>), StrOK>>, "open"),
      Reaction("ok", <<CmdCSQ, LineCsq(<<120>>), StrOK>>, "open"),
      Reaction("ok", <<CmdCSQ, LineCsq(<<45>>), StrOK>>, "open"),
      Reaction("ok", <<CmdCSQ, LineCsq(<<53>>), StrERROR>>, "open"),
      Reaction("ok", <<CmdCSQ, LineCsq(<<53>>)>>, "open"),
      Reaction("ok", <<CmdCSQ, StrERROR>>, "open"),
      Reaction("ok", <<CmdCSQ>>, "eof"),
      Reaction("fail", <<>>, "open") }

\* The decimal digits of a natural number.
RECURSIVE Dec(_)
Dec(n) == IF n < 10 THEN <<48 + n>> ELSE Dec(n \div 10) \o <<48 + (n % 10)>>

\* "+SBDIX:<mo>, <msn>, <mt>, <mtmsn>, <mtlen>, <mtqueued>"
LineSbdix(mo, msn, mt, mtmsn, mtlen, mtq) ==
    TagSBDIX \o Dec(mo) \o SepFields \o Dec(msn) \o SepFields \o Dec(mt) \o SepFields
             \o Dec(mtmsn) \o SepFields \o Dec(mtlen) \o SepFields \o Dec(mtq)

\* The status lines the device reports to any invocation: a successful
\* session with a message waiting and one more queued, with none waiting and
\* one queued, with a message waiting and none queued; a failed session; a
\* successful one whose waiting message has length 0.
SbdixLines ==
    { LineSbdix(0, 5, 1, 7, 10, 1), LineSbdix(0, 5, 0, 7, 0, 1),
      LineSbdix(0, 5, 1, 7, 10, 0),
      LineSbdix(5, 5, 2, 7, 10, 0), LineSbdix(0, 5, 1, 7, 0, 0) }

\* The status lines among them that report a queued message.
QueuedLines == { LineSbdix(0, 5, 1, 7, 10, 1), LineSbdix(0, 5, 0, 7, 0, 1) }

\* The device answers AT+SBDIX with echo, a status line and OK.
SessionAnswers == { Reaction("ok", <<CmdSBDIX, l, StrOK>>, "open") : l \in SbdixLines }

\* The answer with a status line that reports a failed session, a message
\* waiting and one more queued; the device gives it to the outermost
\* invocation only.
OuterAnswers == { Reaction("ok", <<CmdSBDIX, LineSbdix(5, 5, 1, 7, 10, 1), StrOK>>, "open") }

\* The answers to AT+SBDIX that report a queued message.
QueuedAnswers ==
    { Reaction("ok", <<CmdSBDIX, l, StrOK>>, "open") : l \in QueuedLines } \cup OuterAnswers

\* The reactions to AT+SBDIX at any depth: the answers, an answer between
\* blank lines, ERROR instead of a status line, ERROR or nothing instead of
\* OK, a malformed status line, the end of the stream, a failed write.
SbdixReactions ==
    SessionAnswers \cup
    { Reaction("ok", <<<<>>, CmdSBDIX, <<>>,
                       TagSBDIX \o <<32>> \o SubSeq(LineSbdix(4, 5, 0, 7, 0, 0), 8, 23) \o <<32>>,
                       StrOK>>, "open"),
      Reaction("ok", <<CmdSBDIX, StrERROR>>, "open"),
      Reaction("ok", <<CmdSBDIX, LineSbdix(0, 5, 0, 7, 0, 0), StrERROR>>, "open"),
      Reaction("ok", <<CmdSBDIX, LineSbdix(0, 5, 0, 7, 0, 0)>>, "open"),
      Reaction("ok", <<CmdSBDIX, SubSeq(LineSbdix(0, 5, 0, 7, 0, 0), 1, 14), StrOK>>, "open"),
      Reaction("ok", <<CmdSBDIX, TagSBDIX \o <<48, 44, 32, 120>>
                                 \o SubSeq(LineSbdix(0, 5, 0, 7, 0, 0), 12, 23), StrOK>>, "open"),
      Reaction("ok", <<CmdSBDIX>>, "eof"),
      Reaction("fail", <<>>, "open") }

\* The reactions to AT+SBDIX of an invocation at the given depth; steady
\* tells whether the device has answered every command so far, each status
\* line reporting a queued message.  The outermost invocation meets any
\* reaction.  A nested invocation is told of a further queued message by a
\* device that has been steady, and by no device from depth MaxDepth on: a
\* device that has failed to answer once holds one queued message, a steady
\* one holds MaxDepth - 1.
SbdixReactionsAt(depth, steady) ==
    IF depth = 1 THEN SbdixReactions \cup OuterAnswers
    ELSE IF depth < MaxDepth /\ steady THEN SbdixReactions
    ELSE SbdixReactions \ QueuedAnswers

\* The device answers AT+SBDD0 with echo, a status line and OK.
ClearAnswers == { Reaction("ok", <<CmdSBDD0, <<48>>, StrOK>>, "open") }

SbddReactions ==
    ClearAnswers \cup
    { Reaction("ok", <<CmdSBDD0, StrOK>>, "open"),
      Reaction("ok", <<CmdSBDD0, <<49>>, StrERROR>>, "open") }

\* The line the device emits for AT+SBDRB: the echo and its carriage return,
\* a 2-byte length, the payload and a 2-byte checksum.
LineMessage(payload, sum) ==
    CmdSBDRB \o <<CR>> \o <<0, Len(payload)>> \o payload \o <<sum \div 256, sum % 256>>

\* "abc"
PayloadABC == <<97, 98, 99>>

\* The device answers AT+SBDRB with a message line and OK; the message is
\* "abc" or empty.
MessageAnswers ==
    { Reaction("ok", <<LineMessage(PayloadABC, 294), StrOK>>, "open"),
      Reaction("ok", <<LineMessage(<<>>, 0), StrOK>>, "open") }

SbdrbReactions ==
    MessageAnswers \cup
    { Reaction("ok", <<LineMessage(PayloadABC, 294), StrERROR>>, "open"),
      Reaction("ok", <<LineMessage(PayloadABC, 294)>>, "open") }

---------------------------------------------------------------------------
(* What is observed of a run *)

\*   writes: the writes AttemptConnection made on the port, in order
\*   timeNeverValid: every AT-MSSTM so far was answered, never with a valid time
\*   acceptedAt: number of writes made when IsNetworkTimeValid first returned nil
\*   probeErr: the error of the last GetSignalStrength that failed, if any
\*   allQueued: every command of AttemptSession so far was answered and every
\*              AT+SBDIX reply reported MtQueued > 0
\*   retrieved: the non-empty messages ProcessMtMessage has returned
\*   retrieveErr: the error of the last ProcessMtMessage that failed, if any
NoObservations ==
    [writes |-> <<>>, timeNeverValid |-> TRUE, acceptedAt |-> 0, probeErr |-> "nil",
     allQueued |-> TRUE, retrieved |-> {}, retrieveErr |-> "nil"]

NoResult == [incoming |-> <<>>, err |-> "none"]

---------------------------------------------------------------------------
(* AttemptConnection *)

TimeAttempts == 20
SignalAttempts == 10
SignalThreshold == 2

\* The locals of AttemptConnection on entry.
NewConnection ==
    [pc |-> "time", timeAttempts |-> TimeAttempts, signalAttempts |-> 0,
     signal |-> 0, err |-> "nil"]

\* What one step of an operation yields: its locals afterwards, the traced
\* port afterwards, and how the step ended: "ok", "blocked" in a read that
\* will never complete, or "panic".
Stepped(f, t, how) == [f |-> f, t |-> t, how |-> how]

\* The first loop of AttemptConnection, from the outcome v of IsNetworkTimeValid
TimeProbed(c, v) ==
    IF v.blocked THEN Stepped(c, v.t, "blocked")
    ELSE IF v.err = "nil"
    THEN Stepped([c EXCEPT !.pc = "signal", !.signalAttempts = SignalAttempts], v.t, "ok")
    ELSE Stepped([c EXCEPT !.timeAttempts = c.timeAttempts - 1], v.t, "ok")

TimeLoopProbeFirst(c, t, dev) ==
    IF c.timeAttempts = 0
    THEN Stepped([c EXCEPT !.pc = "ret", !.err = "noconnection"],
                 IsNetworkTimeValid(t, dev).t,
                 IF IsNetworkTimeValid(t, dev).blocked THEN "blocked" ELSE "ok")
    ELSE TimeProbed(c, IsNetworkTimeValid(t, dev))

\* One iteration of the first loop of AttemptConnection.
TimeLoop(c, t, dev) ==
    IF c.timeAttempts = 0
    THEN Stepped([c EXCEPT !.pc = "ret", !.err = "noconnection"], t, "ok")
    ELSE TimeProbed(c, IsNetworkTimeValid(t, dev))

SignalProbedErrorRetried(c, g) ==
    IF g.blocked THEN Stepped(c, g.t, "blocked")
    ELSE IF c.signalAttempts = 0
    THEN Stepped([c EXCEPT !.pc = "ret", !.signal = g.r, !.err = "nosignal"], g.t, "ok")
    ELSE IF g.err = "nil" /\ g.r >= SignalThreshold
    THEN Stepped([c EXCEPT !.pc = "ret", !.signal = g.r, !.err = "nil"], g.t, "ok")
    ELSE Stepped([c EXCEPT !.signal = g.r, !.signalAttempts = c.signalAttempts - 1], g.t, "ok")

\* The second loop of AttemptConnection, from the outcome g of GetSignalStrength
SignalProbed(c, g) ==
    IF g.blocked THEN Stepped(c, g.t, "blocked")
    ELSE IF g.err # "nil"
    THEN Stepped([c EXCEPT !.pc = "ret", !.signal = g.r, !.err = g.err], g.t, "ok")
    ELSE IF c.signalAttempts = 0 \/ g.r < 0
    THEN Stepped([c EXCEPT !.pc = "ret", !.signal = g.r, !.err = "nosignal"], g.t, "ok")
    ELSE IF g.r >= SignalThreshold
    THEN Stepped([c EXCEPT !.pc = "ret", !.signal = g.r, !.err = "nil"], g.t, "ok")
    ELSE Stepped([c EXCEPT !.signal = g.r, !.signalAttempts = c.signalAttempts - 1], g.t, "ok")

\* One iteration of the second loop of AttemptConnection.
SignalLoop(c, t, dev) == SignalProbed(c, GetSignalStrength(t, dev))

\* The state after one loop iteration of AttemptConnection with outcome o.
ConnectionStep(o) ==
    /\ port' = Untraced(o.t)
    /\ conn' = o.f
    /\ status' = IF o.how = "blocked" THEN "hung"
                 ELSE IF o.f.pc = "ret" THEN "done" ELSE "running"
    /\ result' = IF o.how = "ok" /\ o.f.pc = "ret"
                 THEN [incoming |-> <<>>, err |-> o.f.err] ELSE result
    /\ UNCHANGED <<op, stack>>

\* What is observed in one iteration of the first loop.
TimeObserved(o, dev) ==
    IF conn.timeAttempts = 0 THEN obs
    ELSE [obs EXCEPT !.writes = obs.writes \o o.t.tx,
                     !.timeNeverValid = obs.timeNeverValid /\ dev \in InvalidTimeAnswers,
                     !.acceptedAt = IF o.how = "ok" /\ o.f.pc = "signal"
                                    THEN Len(obs.writes \o o.t.tx) ELSE obs.acceptedAt]

ConnTimeStep(o, dev) == ConnectionStep(o) /\ obs' = TimeObserved(o, dev)

ConnTimeProbe ==
    /\ op = "connection" /\ status = "running" /\ conn.pc = "time"
    /\ \E dev \in MsstmReactions : ConnTimeStep(TimeLoop(conn, Traced(port), dev), dev)

\* What is observed in one iteration of the second loop, g being the outcome
\* of its GetSignalStrength.
SignalObserved(g) ==
    [obs EXCEPT !.writes = obs.writes \o g.t.tx,
                !.probeErr = IF ~g.blocked /\ g.err # "nil" THEN g.err ELSE obs.probeErr]

ConnSignalProbe ==
    /\ op = "connection" /\ status = "running" /\ conn.pc = "signal"
    /\ \E dev \in CsqReactions :
          /\ ConnectionStep(SignalLoop(conn, Traced(port), dev))
          /\ obs' = SignalObserved(GetSignalStrength(Traced(port), dev))

---------------------------------------------------------------------------
(* AttemptSession *)

SessionAttempts == 3
MoStatusLimit == 4

\* "AttemptSession": entered in an invocation's log when it calls itself
CallAttemptSession == <<65, 116, 116, 101, 109, 112, 116, 83, 101, 115, 115, 105, 111, 110>>

\* What one invocation has done (observation only): the AT+SBDIX commands it
\* wrote, its loop iterations that ended without success, the non-empty
\* messages ProcessMtMessage returned to it, and in its current loop
\* iteration: its writes and its calls of AttemptSession, in order, whether
\* the status line was parsed and its OK read, and the errors ClearMoBuffer
\* and ProcessMtMessage returned ("none": not called).
NothingSeen ==
    [sbdix |-> 0, failed |-> 0, got |-> 0, log |-> <<>>, parsed |-> FALSE,
     clearErr |-> "none", retrieveErr |-> "none"]

\* The same at the start of the next loop iteration.
NextIteration(seen) ==
    [NothingSeen EXCEPT !.sbdix = seen.sbdix, !.failed = seen.failed, !.got = seen.got]

\* The locals of AttemptSession on entry.
NewSession ==
    [pc |-> "loop", attempts |-> SessionAttempts, incoming |-> <<>>, sr |-> NoReply,
     success |-> FALSE, err |-> "nil", seen |-> NothingSeen]

\* return incoming, err
Return(f, t, err) == Stepped([f EXCEPT !.pc = "ret", !.err = err], t, "ok")

\* AttemptSession, from the outcome e of expecting OK after the status line
StatusConfirmed(f, e) ==
    IF e.blocked THEN Stepped(f, e.t, "blocked")
    ELSE IF e.err # "nil" THEN Return(f, e.t, e.err)
    ELSE Stepped([f EXCEPT !.success = FALSE, !.seen.parsed = TRUE,
                           !.pc = IF f.sr.MoStatus <= MoStatusLimit THEN "clear" ELSE "mt"],
                 e.t, "ok")

\* AttemptSession, from the outcome p of ParseSbdixReply
StatusParsed(f, t, p) ==
    IF p.panic THEN Stepped(f, t, "panic")
    ELSE IF p.err # "nil" THEN Return(f, t, p.err)
    ELSE StatusConfirmed([f EXCEPT !.sr = p.sr], Expect(t, StrOK))

\* As SessionReplied, but a reply without the marker gives the attempt back.
SessionRepliedMarkerFree(f, sr) ==
    IF sr.blocked THEN Stepped(f, sr.t, "blocked")
    ELSE IF sr.err # "nil" THEN Return(f, sr.t, sr.err)
    ELSE IF Index(sr.r, TagSBDIX) >= 0 THEN StatusParsed(f, sr.t, ParseSbdixReply(sr.r))
    ELSE Stepped([f EXCEPT !.attempts = f.attempts + 1,
                           !.seen.failed = f.seen.failed + 1], sr.t, "ok")

\* AttemptSession, from the outcome sr of SendAndReadReply
SessionReplied(f, sr) ==
    IF sr.blocked THEN Stepped(f, sr.t, "blocked")
    ELSE IF sr.err # "nil" THEN Return(f, sr.t, sr.err)
    ELSE IF Index(sr.r, TagSBDIX) >= 0 THEN StatusParsed(f, sr.t, ParseSbdixReply(sr.r))
    ELSE Stepped([f EXCEPT !.seen.failed = f.seen.failed + 1], sr.t, "ok")

\* The top of the loop of AttemptSession, up to the decision on success.
SessionLoop(f, t, dev) ==
    IF f.attempts = 0 THEN Return(f, t, "nosession")
    ELSE SessionReplied([f EXCEPT !.attempts = f.attempts - 1,
                                  !.seen = NextIteration(f.seen)],
                        SendAndReadReply(t, CmdSBDIX, dev))

\* As SessionCleared, but an error of ClearMoBuffer is returned.
SessionClearedChecked(f, c) ==
    IF c.blocked THEN Stepped(f, c.t, "blocked")
    ELSE IF c.err # "nil" THEN Return([f EXCEPT !.seen.clearErr = c.err], c.t, c.err)
    ELSE Stepped([f EXCEPT !.success = TRUE, !.pc = "mt", !.seen.clearErr = c.err], c.t, "ok")

\* rb.ClearMoBuffer(); success = true
\* from the outcome c of ClearMoBuffer, whose error is dropped
SessionCleared(f, c) ==
    IF c.blocked THEN Stepped(f, c.t, "blocked")
    ELSE Stepped([f EXCEPT !.success = TRUE, !.pc = "mt", !.seen.clearErr = c.err], c.t, "ok")

\* The retrieval of a waiting message, from the outcome m of ProcessMtMessage
SessionRetrieved(f, m) ==
    IF m.blocked THEN Stepped(f, m.t, "blocked")
    ELSE IF m.err # "nil" THEN Return([f EXCEPT !.seen.retrieveErr = m.err], m.t, m.err)
    ELSE Stepped([f EXCEPT !.pc = "drain", !.seen.retrieveErr = "nil",
                           !.seen.got = IF m.r # <<>> THEN f.seen.got + 1 ELSE f.seen.got,
                           !.incoming = IF m.r # <<>> THEN Append(f.incoming, m.r)
                                        ELSE f.incoming],
                 m.t, "ok")

\* As SessionMt, but whatever MtLength is.
SessionMtAnyLength(f, t, dev) ==
    IF f.sr.MtStatus = 1
    THEN SessionRetrieved(f, ProcessMtMessage(t, dev))
    ELSE Stepped([f EXCEPT !.pc = "drain"], t, "ok")

\* if sr.MtStatus == 1 && sr.MtLength > 0 { ... }
SessionMt(f, t, dev) ==
    IF f.sr.MtStatus = 1 /\ f.sr.MtLength > 0
    THEN SessionRetrieved(f, ProcessMtMessage(t, dev))
    ELSE Stepped([f EXCEPT !.pc = "drain"], t, "ok")

\* if success { return incoming, nil }, and otherwise the next iteration
SessionChecked(f, t) ==
    IF f.success THEN Return(f, t, "nil")
    ELSE Stepped([f EXCEPT !.pc = "loop", !.seen.failed = f.seen.failed + 1], t, "ok")

\* The locals f with the writes tx of a step entered in what f has seen.
Noted(f, tx) ==
    [f EXCEPT !.seen.log = f.seen.log \o tx,
              !.seen.sbdix = f.seen.sbdix
                             + Cardinality({i \in 1..Len(tx) : tx[i] = CmdSBDIX \o <<CR>>})]

\* The state after a step with outcome o of the innermost invocation.
SessionStep(o) ==
    /\ port' = Untraced(o.t)
    /\ stack' = [stack EXCEPT ![Len(stack)] = Noted(o.f, o.t.tx)]
    /\ status' = IF o.how = "blocked" THEN "hung"
                 ELSE IF o.how = "panic" THEN "panic"
                 ELSE IF Len(stack) = 1 /\ o.f.pc = "ret" THEN "done"
                 ELSE "running"
    /\ result' = IF o.how = "ok" /\ Len(stack) = 1 /\ o.f.pc = "ret"
                 THEN [incoming |-> o.f.incoming, err |-> o.f.err] ELSE result
    /\ UNCHANGED <<op, conn>>

\* The innermost invocation is running at pc.
Running(pc) ==
    /\ op = "session" /\ status = "running"
    /\ stack # <<>> /\ stack[Len(stack)].pc = pc

\* What is observed of the device when it reacts to a command: whether it is
\* still answering every command, with a queued message in every status line.
Answering(dev, answers) == [obs EXCEPT !.allQueued = obs.allQueued /\ dev \in answers]

SessionSbdix ==
    /\ Running("loop")
    /\ \E dev \in SbdixReactionsAt(Len(stack), obs.allQueued) :
          /\ SessionStep(SessionLoop(stack[Len(stack)], Traced(port), dev))
          /\ obs' = IF stack[Len(stack)].attempts = 0 THEN obs
                    ELSE Answering(dev, QueuedAnswers)

SessionClear ==
    /\ Running("clear")
    /\ \E dev \in SbddReactions :
          /\ SessionStep(SessionCleared(stack[Len(stack)], ClearMoBuffer(Traced(port), dev)))
          /\ obs' = Answering(dev, ClearAnswers)

\* What is observed of a retrieval with outcome m.
RetrievalObserved(o, m) ==
    IF m.blocked THEN o
    ELSE IF m.err # "nil" THEN [o EXCEPT !.retrieveErr = m.err]
    ELSE IF m.r # <<>> THEN [o EXCEPT !.retrieved = o.retrieved \cup {m.r}]
    ELSE o

SessionRetrieve ==
    /\ Running("mt")
    /\ \E dev \in SbdrbReactions :
          /\ SessionStep(SessionMt(stack[Len(stack)], Traced(port), dev))
          /\ obs' = IF stack[Len(stack)].sr.MtStatus = 1 /\ stack[Len(stack)].sr.MtLength > 0
                    THEN RetrievalObserved(Answering(dev, MessageAnswers),
                                           ProcessMtMessage(Traced(port), dev))
                    ELSE obs

\* As Called, but the invocation called goes on with the attempts of f.
CalledOnSharedBudget(f) == [NewSession EXCEPT !.attempts = f.attempts, !.seen.sbdix = f.seen.sbdix]

\* The locals of the invocation that invocation f calls.
Called(f) == NewSession

\* The locals of an invocation that calls AttemptSession.
Draining(f) ==
    [f EXCEPT !.pc = "wait", !.seen.log = Append(f.seen.log, CallAttemptSession)]

\* if sr.MtQueued > 0 { rb.AttemptSession() }: the nested invocation starts
SessionDrain ==
    /\ Running("drain")
    /\ IF stack[Len(stack)].sr.MtQueued > 0
       THEN stack' = [stack EXCEPT ![Len(stack)] = Draining(stack[Len(stack)])]
                     \o <<Called(stack[Len(stack)])>>
       ELSE stack' = [stack EXCEPT ![Len(stack)].pc = "check"]
    /\ UNCHANGED <<port, op, status, conn, result, obs>>

\* The nested invocation returns; what it returns is dropped.
SessionDrained ==
    /\ Running("ret")
    /\ Len(stack) > 1
    /\ stack' = [SubSeq(stack, 1, Len(stack) - 1) EXCEPT ![Len(stack) - 1].pc = "check"]
    /\ UNCHANGED <<port, op, status, conn, result, obs>>

SessionCheck ==
    /\ Running("check")
    /\ SessionStep(SessionChecked(stack[Len(stack)], Traced(port)))
    /\ obs' = obs

---------------------------------------------------------------------------
(* QueueMessage *)

MaxMessage == 340

\* "AT+SBDWB="
CmdSBDWB == <<65, 84, 43, 83, 66, 68, 87, 66, 61>>
\* "READY"
StrREADY == <<82, 69, 65, 68, 89>>
\* "0"
StrZero == <<48>>

\* for ... range reads a rune at place i of s: every byte but a continuation
\* byte starts one (no well-formed sequence holds such a byte after its
\* first), and a continuation byte does unless a well-formed sequence begun
\* up to 3 places before reaches it.
RuneStart(s, i) ==
    \/ s[i] \notin 128..191
    \/ \A j \in (i - 3)..(i - 1) : j >= 1 => RuneWidth(s, j) <= i - j

\* checksum += int(c) for the runes c that start at places lo..hi of s (the
\* sum is taken by halves, to keep the evaluation shallow)
RECURSIVE RuneSum(_, _, _)
RuneSum(s, lo, hi) ==
    IF lo > hi THEN 0
    ELSE IF lo = hi THEN (IF RuneStart(s, lo) THEN RuneAt(s, lo) ELSE 0)
    ELSE RuneSum(s, lo, (lo + hi) \div 2) + RuneSum(s, (lo + hi) \div 2 + 1, hi)

\* The checksum QueueMessage computes for message.
Checksum(message) == RuneSum(message, 1, Len(message))

\* fmt.Sprintf("%c", r): the UTF-8 encoding of the code point r, and that of
\* U+FFFD when r is no code point.
EncodeRune(r) ==
    IF r < 0 \/ r > 1114111 \/ r \in 55296..57343 THEN <<239, 191, 189>>
    ELSE IF r < 128 THEN <<r>>
    ELSE IF r < 2048 THEN <<192 + (r \div 64), 128 + (r % 64)>>
    ELSE IF r < 65536
    THEN <<224 + (r \div 4096), 128 + ((r \div 64) % 64), 128 + (r % 64)>>
    ELSE <<240 + (r \div 262144), 128 + ((r \div 4096) % 64),
           128 + ((r \div 64) % 64), 128 + (r % 64)>>

\* fmt.Sprintf("AT+SBDWB=%d", len(message))
QueueCommand(message) == CmdSBDWB \o Dec(Len(message))

\* The locals of QueueMessage on entry, with what is observed of the call:
\* its writes, the lines the device has sent, and whether a write of the
\* message or of the checksum failed.
NewQueue(message) ==
    [pc |-> "start", message |-> message, err |-> "nil",
     writes |-> <<>>, emitted |-> <<>>, failed |-> FALSE]

\* return err
Returned(q, t, err) == Stepped([q EXCEPT !.pc = "ret", !.err = err], t, "ok")

\* QueueMessage, from the outcome e of expecting READY
QueueReady(q, e) ==
    IF e.blocked THEN Stepped(q, e.t, "blocked")
    ELSE IF e.err # "nil" THEN Returned(q, e.t, e.err)
    ELSE Stepped([q EXCEPT !.pc = "payload"], e.t, "ok")

\* QueueMessage, from the outcome e of expecting the echo
QueueEchoed(q, e) ==
    IF e.blocked THEN Stepped(q, e.t, "blocked")
    ELSE IF e.err # "nil" THEN Returned(q, e.t, e.err)
    ELSE QueueReady(q, Expect(e.t, StrREADY))

\* QueueMessage, from the outcome s of sending the command
QueueSent(q, s, command) ==
    IF s.err # "nil" THEN Returned(q, s.t, s.err)
    ELSE QueueEchoed(q, Expect(s.t, command))

\* As QueueStart, but a message of 340 bytes is too long as well.
QueueStartStrict(q, t, dev) ==
    IF Len(q.message) >= MaxMessage THEN Returned(q, t, "toolong")
    ELSE QueueSent(q, Send(t, QueueCommand(q.message) \o <<CR>>, dev),
                   QueueCommand(q.message))

\* QueueMessage up to the READY prompt.
QueueStart(q, t, dev) ==
    IF Len(q.message) > MaxMessage THEN Returned(q, t, "toolong")
    ELSE QueueSent(q, Send(t, QueueCommand(q.message) \o <<CR>>, dev),
                   QueueCommand(q.message))

\* QueueMessage, from the outcome e of expecting OK
QueueFinished(q, e) ==
    IF e.blocked THEN Stepped(q, e.t, "blocked") ELSE Returned(q, e.t, e.err)

\* As QueueAccepted, but OK is expected whatever the status line was.
QueueAcceptedAnyStatus(q, e) ==
    IF e.blocked THEN Stepped(q, e.t, "blocked")
    ELSE QueueFinished(q, Expect(e.t, StrOK))

\* QueueMessage, from the outcome e of expecting "0"
QueueAccepted(q, e) ==
    IF e.blocked THEN Stepped(q, e.t, "blocked")
    ELSE IF e.err # "nil" THEN Returned(q, e.t, e.err)
    ELSE QueueFinished(q, Expect(e.t, StrOK))

\* rb.Send(message); rb.Send("%c", checksum>>8); rb.Send("%c", checksum&0xff):
\* the traced port after the three writes, whose errors are dropped.
QueueWrites(t, message, d1, d2, d3) ==
    Send(Send(Send(t, message, d1).t, EncodeRune(Checksum(message) \div 256), d2).t,
         EncodeRune(Checksum(message) % 256), d3).t

\* QueueMessage from the READY prompt on.
QueuePayload(q, t, d1, d2, d3) ==
    QueueAccepted(q, Expect(QueueWrites(t, q.message, d1, d2, d3), StrZero))

\* The device answers AT+SBDWB=<n> with echo and READY.
ReadyAnswers(message) ==
    { Reaction("ok", <<QueueCommand(message), StrREADY>>, "open"),
      Reaction("ok", <<<<>>, QueueCommand(message), <<32>>, StrREADY \o <<32>>>>, "open") }

\* The reactions to AT+SBDWB=<n>: the answers, ERROR instead of READY, an
\* echo of another command, nothing after the echo, the end of the stream,
\* a failed write.
SbdwbReactions(message) ==
    ReadyAnswers(message) \cup
    { Reaction("ok", <<QueueCommand(message), StrERROR>>, "open"),
      Reaction("ok", <<CmdSBDWB, StrREADY>>, "open"),
      Reaction("ok", <<QueueCommand(message)>>, "open"),
      Reaction("ok", <<QueueCommand(message)>>, "eof"),
      Reaction("fail", <<>>, "open") }

\* The reactions to the write of the message and of the first checksum
\* character: the device says nothing; the write succeeds or fails.
SilentReactions == { Reaction("ok", <<>>, "open"), Reaction("fail", <<>>, "open") }

\* The reactions to the write of the last checksum character: status 0 and
\* OK, another status, ERROR instead of OK, nothing after the status, the
\* end of the stream, a failed write.
StatusReactions ==
    { Reaction("ok", <<StrZero, StrOK>>, "open"),
      Reaction("ok", <<<<49>>, StrOK>>, "open"),
      Reaction("ok", <<<<50>>, StrOK>>, "open"),
      Reaction("ok", <<StrZero, StrERROR>>, "open"),
      Reaction("ok", <<StrZero>>, "open"),
      Reaction("ok", <<>>, "eof"),
      Reaction("fail", <<>>, "open") }

\* n bytes b
Fill(n, b) == [i \in 1..n |-> b]

\* The messages the caller queues: "", "A", "AA", "~~", the byte 0xC8, "é" in
\* UTF-8, and 340 and 341 times "A".
Messages ==
    { <<>>, <<65>>, <<65, 65>>, <<126, 126>>, <<200>>, <<195, 169>>,
      Fill(MaxMessage, 65), Fill(MaxMessage + 1, 65) }

\* The state after a step of QueueMessage with outcome o, the device having
\* sent the lines heard; failed tells whether a write whose error is dropped
\* failed in this step.
QueueStep(o, heard, failed) ==
    /\ port' = Untraced(o.t)
    /\ stack' = <<[o.f EXCEPT !.writes = stack[1].writes \o o.t.tx,
                              !.emitted = stack[1].emitted \o heard,
                              !.failed = failed]>>
    /\ status' = IF o.how = "blocked" THEN "hung"
                 ELSE IF o.f.pc = "ret" THEN "done" ELSE "running"
    /\ result' = IF o.how = "ok" /\ o.f.pc = "ret"
                 THEN [incoming |-> <<>>, err |-> o.f.err] ELSE result
    /\ UNCHANGED <<op, conn, obs>>

\* The lines the scanner of traced port t holds beyond those of port p.
Heard(p, t) == SubSeq(t.rx, Len(p.rx) + 1, Len(t.rx))

QueueHandshake ==
    /\ op = "queue" /\ status = "running" /\ stack[1].pc = "start"
    /\ \E dev \in SbdwbReactions(stack[1].message) :
          QueueStep(QueueStart(stack[1], Traced(port), dev),
                    IF Len(stack[1].message) > MaxMessage THEN <<>>
                    ELSE Heard(port, Send(Traced(port), <<>>, dev).t),
                    FALSE)

QueueTransfer ==
    /\ op = "queue" /\ status = "running" /\ stack[1].pc = "payload"
    /\ \E d1 \in SilentReactions, d2 \in SilentReactions, d3 \in StatusReactions :
          QueueStep(QueuePayload(stack[1], Traced(port), d1, d2, d3),
                    Heard(port, QueueWrites(Traced(port), stack[1].message, d1, d2, d3)),
                    "fail" \in {d1.wr, d2.wr, d3.wr})

---------------------------------------------------------------------------
(* ParseSbdixReply on its own *)

\* The most fields a reply handed to ParseSbdixReply has here.
MaxFields == 7

\* The fields of those replies: "5", "-1", "12" and "x".
Tokens == { <<53>>, <<45, 49>>, <<49, 50>>, <<120>> }

\* strings.Join(fields, ", ")
RECURSIVE Join(_)
Join(fields) ==
    IF fields = <<>> THEN <<>>
    ELSE IF Len(fields) = 1 THEN fields[1]
    ELSE fields[1] \o SepFields \o Join(SubSeq(fields, 2, Len(fields)))

\* The field lists of the replies: every list of up to MaxFields fields that
\* holds at most one "-1", one "12" and one "x" (the other fields being "5").
FieldLists ==
    UNION { { fields \in [1..n -> Tokens] :
                 \A tok \in Tokens \ {<<53>>} :
                    Cardinality({i \in 1..n : fields[i] = tok}) <= 1 } : n \in 0..MaxFields }

\* The caller's call of ParseSbdixReply: it returns, or panics.
ParseCall ==
    /\ op = "parse" /\ status = "running" /\ stack[1].pc = "start"
    /\ stack' = <<[stack[1] EXCEPT !.pc = "ret", !.out = ParseSbdixReply(stack[1].reply)]>>
    /\ status' = IF ParseSbdixReply(stack[1].reply).panic THEN "crashed" ELSE "done"
    /\ result' = IF ParseSbdixReply(stack[1].reply).panic THEN result
                 ELSE [incoming |-> <<>>, err |-> ParseSbdixReply(stack[1].reply).err]
    /\ UNCHANGED <<port, op, conn, obs>>

---------------------------------------------------------------------------
(* ReadLine on its own *)

\* The most tokens the scanner delivers before the stream stops here.
MaxLines == 3

\* The tokens the scanner delivers: "", " ", "OK", " a\t" and a no-break
\* space (U+00A0) followed by a space.
ScannedLines == { <<>>, <<32>>, StrOK, <<32, 97, 9>>, <<194, 160, 32>> }

\* The streams a call of ReadLine finds: up to MaxLines tokens, after which
\* the stream stays open without a further token, is at end of file, or fails
\* with a read error.
Streams ==
    UNION { { [rx |-> rx, end |-> end] : rx \in [1..n -> ScannedLines],
                                         end \in {"open", "eof", "err"} } : n \in 0..MaxLines }

\* The caller's call of ReadLine.
ReadCall ==
    /\ op = "read" /\ status = "running" /\ stack[1].pc = "start"
    /\ port' = Untraced(ReadLine(Traced(port)).t)
    /\ stack' = <<[stack[1] EXCEPT !.pc = "ret"]>>
    /\ status' = IF ReadLine(Traced(port)).blocked THEN "hung" ELSE "done"
    /\ result' = IF ReadLine(Traced(port)).blocked THEN result
                 ELSE [incoming |-> ReadLine(Traced(port)).r, err |-> ReadLine(Traced(port)).err]
    /\ UNCHANGED <<op, conn, obs>>

---------------------------------------------------------------------------
(* One operation, then the next command on the same RockBlock *)

\* The lines the device emits first for AT+SBDRB: the echo and the frame of
\* "abc"; the echo and an empty frame; the echo, a space and "abcdef"; "xy",
\* the echo and "abcdef"; "abcdefg", "abcde" and "abcd" without echo; the
\* echo alone; the echo, a no-break space (U+00A0) and the frame of "abc".
MtLines ==
    { LineMessage(PayloadABC, 294), LineMessage(<<>>, 0),
      CmdSBDRB \o <<CR, 194, 160, 0, 3>> \o PayloadABC \o <<1, 38>>,
      CmdSBDRB \o <<CR, 32, 97, 98, 99, 100, 101, 102>>,
      <<120, 121>> \o CmdSBDRB \o <<CR, 97, 98, 99, 100, 101, 102>>,
      <<97, 98, 99, 100, 101, 102, 103>>, <<97, 98, 99, 100, 101>>, <<97, 98, 99, 100>>,
      CmdSBDRB \o <<CR>> }

\* The device's reactions to AT+SBDRB: one of those lines and then OK, ERROR,
\* nothing more, or the end of the stream; or the write fails.
RetrieveReactions ==
    { Reaction("ok", <<line, StrOK>>, "open") : line \in MtLines } \cup
    { Reaction("ok", <<line, StrERROR>>, "open") : line \in MtLines } \cup
    { Reaction("ok", <<line>>, "open") : line \in MtLines } \cup
    { Reaction("ok", <<line>>, "eof") : line \in MtLines } \cup
    { Reaction("fail", <<>>, "open") }

\* The device's reactions to AT+CSQ: those of CsqReactions, and the replies
\* "+CSQ;5", "x+CSQ5", "-CSQ:5" and "+CSQ:" followed by OK.
SignalReactions ==
    CsqReactions \cup
    { Reaction("ok", <<CmdCSQ, TagCSQ \o <<59, 53>>, StrOK>>, "open"),
      Reaction("ok", <<CmdCSQ, <<120>> \o TagCSQ \o <<53>>, StrOK>>, "open"),
      Reaction("ok", <<CmdCSQ, <<45, 67, 83, 81, 58, 53>>, StrOK>>, "open"),
      Reaction("ok", <<CmdCSQ, LineCsq(<<>>), StrOK>>, "open") }

\* The caller before its first call.
NewCall ==
    [pc |-> "start", answer |-> Reaction("ok", <<>>, "open"), value |-> <<>>, err |-> "none",
     left |-> <<>>, follow |-> [reply |-> <<>>, err |-> "none"]]

\* The state after the first call with outcome o, the device having reacted
\* with dev: the caller goes on to the next command unless the call is blocked.
CallStep(o, dev) ==
    /\ port' = Untraced(o.t)
    /\ stack' = <<[stack[1] EXCEPT !.pc = "called", !.answer = dev, !.value = o.r,
                                   !.err = o.err, !.left = o.t.rx]>>
    /\ status' = IF o.blocked THEN "hung"
                 ELSE IF o.err = "panic" THEN "crashed" ELSE "running"
    /\ result' = IF o.blocked \/ o.err = "panic" THEN result
                 ELSE [incoming |-> IF op = "retrieve" THEN o.r ELSE <<>>, err |-> o.err]
    /\ UNCHANGED <<op, conn, obs>>

RetrieveCall ==
    /\ op = "retrieve" /\ status = "running" /\ stack[1].pc = "start"
    /\ \E dev \in RetrieveReactions : CallStep(ProcessMtMessage(Traced(port), dev), dev)

SignalCall ==
    /\ op = "signal" /\ status = "running" /\ stack[1].pc = "start"
    /\ \E dev \in SignalReactions : CallStep(GetSignalStrength(Traced(port), dev), dev)

TimeCall ==
    /\ op = "time" /\ status = "running" /\ stack[1].pc = "start"
    /\ \E dev \in MsstmReactions : CallStep(IsNetworkTimeValid(Traced(port), dev), dev)

ClearCall ==
    /\ op = "clear" /\ status = "running" /\ stack[1].pc = "start"
    /\ \E dev \in SbddReactions : CallStep(ClearMoBuffer(Traced(port), dev), dev)

\* The caller's call of GetNetworkTime.  The device reacts to AT-MSSTM as in
\* MsstmReactions, or replies "-MSSTM:" alone, "-MSSTM:x" (8 characters),
\* "0a1b2c3d-MSSTM:+", "-MSSTM: ffffffff" or "-MSSTM: -5".
GetNetworkTime ==
    /\ op = "nettime" /\ status = "running" /\ stack[1].pc = "start"
    /\ \E dev \in MsstmReactions \cup
                  { Reaction("ok", <<CmdMSSTM, reply, StrOK>>, "open") :
                       reply \in { TagMSSTM, TagMSSTM \o <<120>>, LineTimeShifted,
                                   TagMSSTM \o <<32, 102, 102, 102, 102, 102, 102, 102, 102>>,
                                   TagMSSTM \o <<32, 45, 53>> } } :
          CallStep(NetworkTimeReply(SendAndReadReply(Traced(port), CmdMSSTM, dev)), dev)

\* The caller's call of GetSerialIdentifier ("AT+GSN").  The device sends the
\* echo, "300234010753370" and OK, or ERROR or nothing in place of OK, or
\* ERROR alone, or ends the stream after the echo, or the write fails.
GetSerialIdentifier ==
    /\ op = "serial" /\ status = "running" /\ stack[1].pc = "start"
    /\ \E dev \in
          { Reaction("ok", <<<<65, 84, 43, 71, 83, 78>>>> \o tail, "open") :
               tail \in { <<<<51, 48, 48, 50, 51, 52, 48, 49, 48, 55, 53, 51, 51, 55, 48>>, StrOK>>,
                          <<<<51, 48, 48, 50, 51, 52, 48, 49, 48, 55, 53, 51, 51, 55, 48>>, StrERROR>>,
                          <<<<51, 48, 48, 50, 51, 52, 48, 49, 48, 55, 53, 51, 51, 55, 48>>>>,
                          <<StrERROR>> } } \cup
          { Reaction("ok", <<<<65, 84, 43, 71, 83, 78>>>>, "eof"),
            Reaction("fail", <<>>, "open") } :
          CallStep(SerialReply(SendAndReadReply(Traced(port), <<65, 84, 43, 71, 83, 78>>, dev)),
                   dev)

\* The device's reactions to a command that is answered with OK alone: the
\* echo and OK, also between blank lines; ERROR in place of OK; OK without
\* the echo; the echo and nothing more; the end of the stream; a failed write.
AckReactions(command) ==
    { Reaction("ok", <<command, StrOK>>, "open"),
      Reaction("ok", <<<<>>, command, <<32>>, StrOK>>, "open"),
      Reaction("ok", <<command, StrERROR>>, "open"),
      Reaction("ok", <<StrOK>>, "open"),
      Reaction("ok", <<command>>, "open"),
      Reaction("ok", <<command>>, "eof"),
      Reaction("fail", <<>>, "open") }

\* The caller's call of EnableEcho ("ATE1").
EnableEcho ==
    /\ op = "echo" /\ status = "running" /\ stack[1].pc = "start"
    /\ \E dev \in AckReactions(<<65, 84, 69, 49>>) :
          CallStep(Acknowledged(SendAndReadReply(Traced(port), <<65, 84, 69, 49>>, dev),
                                "echofailed"), dev)

\* The caller's call of DisableFlowControl ("AT&K0").
DisableFlowControl ==
    /\ op = "flow" /\ status = "running" /\ stack[1].pc = "start"
    /\ \E dev \in AckReactions(<<65, 84, 38, 75, 48>>) :
          CallStep(Acknowledged(SendAndReadReply(Traced(port), <<65, 84, 38, 75, 48>>, dev),
                                "flowfailed"), dev)

\* The caller's call of DisableRingAlerts ("AT+SBDMTA=0").
DisableRingAlerts ==
    /\ op = "ring" /\ status = "running" /\ stack[1].pc = "start"
    /\ \E dev \in AckReactions(<<65, 84, 43, 83, 66, 68, 77, 84, 65, 61, 48>>) :
          CallStep(Acknowledged(SendAndReadReply(Traced(port),
                                                 <<65, 84, 43, 83, 66, 68, 77, 84, 65, 61, 48>>,
                                                 dev),
                                "ringfailed"), dev)

\* The caller's call of Ping ("AT").
Ping ==
    /\ op = "ping" /\ status = "running" /\ stack[1].pc = "start"
    /\ \E dev \in AckReactions(<<65, 84>>) :
          CallStep(Acknowledged(SendAndReadReply(Traced(port), <<65, 84>>, dev), "pingfailed"),
                   dev)

\* The caller's call of Close: rb.Port.Close().  The port is closed from then
\* on: a write on it fails and the scanner gets no further token.
Close ==
    /\ op = "close" /\ status = "running" /\ stack[1].pc = "start"
    /\ port' = [rx |-> port.rx, end |-> "closed"]
    /\ stack' = <<[stack[1] EXCEPT !.pc = "called", !.err = "nil", !.left = port.rx]>>
    /\ result' = [incoming |-> <<>>, err |-> "nil"]
    /\ UNCHANGED <<op, status, conn, obs>>

\* The next command of the caller: SendAndReadReply of AT+SBDIX.  The device
\* answers with the echo, a status line and OK, also after blank lines, or
\* the write fails.
FollowCall ==
    /\ op \in {"retrieve", "signal", "time", "clear", "nettime", "serial",
               "echo", "flow", "ring", "ping", "close"}
    /\ status = "running" /\ stack[1].pc = "called"
    /\ \E dev \in
          { Reaction("ok", <<CmdSBDIX, LineSbdix(0, 5, 0, 7, 0, 0), StrOK>>, "open"),
            Reaction("ok", <<<<>>, CmdSBDIX, <<32>>, LineSbdix(0, 5, 0, 7, 0, 0), StrOK>>,
                     "open"),
            Reaction("fail", <<>>, "open") } :
          /\ port' = Untraced(SendAndReadReply(Traced(port), CmdSBDIX, dev).t)
          /\ stack' = <<[stack[1] EXCEPT
                            !.pc = "ret",
                            !.follow = [reply |-> SendAndReadReply(Traced(port), CmdSBDIX, dev).r,
                                        err |-> SendAndReadReply(Traced(port), CmdSBDIX, dev).err]]>>
          /\ status' = IF SendAndReadReply(Traced(port), CmdSBDIX, dev).blocked
                       THEN "hung" ELSE "done"
    /\ UNCHANGED <<op, conn, obs, result>>

---------------------------------------------------------------------------
(* Specifications *)

Init ==
    /\ port = NewPort
    /\ op \in {"connection", "session"}
    /\ status = "running"
    /\ conn = NewConnection
    /\ stack = IF op = "session" THEN <<NewSession>> ELSE <<>>
    /\ result = NoResult
    /\ obs = NoObservations

NextConn == ConnTimeProbe \/ ConnSignalProbe

InitConn == Init /\ op = "connection"

\* A caller that invokes AttemptConnection on a freshly opened RockBlock.
SpecConn == InitConn /\ [][NextConn]_vars

NextSession ==
    \/ SessionSbdix \/ SessionClear \/ SessionRetrieve
    \/ SessionDrain \/ SessionDrained \/ SessionCheck

InitSession == Init /\ op = "session"

\* A caller that invokes AttemptSession on a freshly opened RockBlock.
SpecSession == InitSession /\ [][NextSession]_vars

Next == NextConn \/ NextSession

\* A caller that invokes either operation on a freshly opened RockBlock.
Spec == Init /\ [][Next]_vars

InitQueue ==
    /\ port = NewPort
    /\ op = "queue"
    /\ status = "running"
    /\ conn = NewConnection
    /\ \E message \in Messages : stack = <<NewQueue(message)>>
    /\ result = NoResult
    /\ obs = NoObservations

NextQueue == QueueHandshake \/ QueueTransfer

\* A caller that invokes QueueMessage on a freshly opened RockBlock.
SpecQueue == InitQueue /\ [][NextQueue]_vars

InitParse ==
    /\ port = NewPort
    /\ op = "parse"
    /\ status = "running"
    /\ conn = NewConnection
    /\ \E fields \in FieldLists :
          stack = <<[pc |-> "start", fields |-> fields, reply |-> TagSBDIX \o Join(fields),
                     out |-> [sr |-> NoReply, err |-> "none", panic |-> FALSE]]>>
    /\ result = NoResult
    /\ obs = NoObservations

\* A caller that invokes ParseSbdixReply on a status line.
SpecParse == InitParse /\ [][ParseCall]_vars

InitRead ==
    /\ port \in Streams
    /\ op = "read"
    /\ status = "running"
    /\ conn = NewConnection
    /\ stack = <<[pc |-> "start", stream |-> port]>>
    /\ result = NoResult
    /\ obs = NoObservations

\* A caller that invokes ReadLine on a RockBlock whose scanner holds tokens.
SpecRead == InitRead /\ [][ReadCall]_vars

InitCalls ==
    /\ port = NewPort
    /\ op \in {"retrieve", "signal", "time", "clear", "nettime", "serial",
               "echo", "flow", "ring", "ping", "close"}
    /\ status = "running"
    /\ conn = NewConnection
    /\ stack = <<NewCall>>
    /\ result = NoResult
    /\ obs = NoObservations

NextCalls ==
    \/ RetrieveCall \/ SignalCall \/ TimeCall \/ ClearCall
    \/ GetNetworkTime \/ GetSerialIdentifier
    \/ EnableEcho \/ DisableFlowControl \/ DisableRingAlerts \/ Ping \/ Close
    \/ FollowCall

\* A caller that invokes one of the operations of a freshly opened RockBlock
\* other than AttemptConnection, AttemptSession and QueueMessage, and then
\* sends the next command.
SpecCalls == InitCalls /\ [][NextCalls]_vars

---------------------------------------------------------------------------
(* Properties of AttemptSession *)

\* The number of entries of log that equal entry.
Times(log, entry) == Cardinality({i \in 1..Len(log) : log[i] = entry})

\* The place in log of its first entry that equals entry, 0 if there is none.
Place(log, entry) ==
    IF \E i \in 1..Len(log) : log[i] = entry
    THEN CHOOSE i \in 1..Len(log) :
            log[i] = entry /\ \A j \in 1..(i - 1) : log[j] # entry
    ELSE 0

\* What invocation f did in its current loop iteration: the times it wrote
\* command, and the times it called AttemptSession.
Written(f, command) == Times(f.seen.log, command \o <<CR>>)
Calls(f) == Times(f.seen.log, CallAttemptSession)

\* ProcessMtMessage was not called in the current iteration of f, or returned
\* without error.
NoRetrievalError(f) == f.seen.retrieveErr \in {"none", "nil"}

\* C1 as stated: every invocation of AttemptSession writes AT+SBDIX at most
\* 3 times, and an invocation that has returned after 3 attempts each of
\* which got a reply without the +SBDIX: marker or a parsed reply with
\* MoStatus > 4 returned the retry-exhausted error.
C1_ThreeFailedAttemptsExhaust ==
    \A i \in 1..Len(stack) :
       /\ stack[i].seen.sbdix <= 3
       /\ (stack[i].pc = "ret" /\ stack[i].seen.sbdix = 3
             /\ \/ stack[i].seen.failed = 3
                \/ /\ stack[i].seen.failed = 2
                   /\ stack[i].seen.parsed /\ stack[i].sr.MoStatus > 4) =>
             stack[i].err = "nosession"

\* C1: every invocation of AttemptSession, nested ones counted on their own,
\* has written AT+SBDIX once per attempt it has used up and never more than 3
\* times; once 3 of its loop iterations have ended without success (the reply
\* had no +SBDIX: marker, or it was parsed with MoStatus > 4) it only returns,
\* and it returns the retry-exhausted error, after exactly 3 AT+SBDIX, with
\* all the non-empty messages its retrievals gave it; that error is returned
\* in no other case.
C1_AtMostThreeSessionAttempts ==
    /\ \A i \in 1..Len(stack) :
          /\ stack[i].seen.sbdix <= 3
          /\ stack[i].seen.sbdix = 3 - stack[i].attempts
          /\ stack[i].seen.failed <= stack[i].seen.sbdix
          /\ Len(stack[i].incoming) = stack[i].seen.got
          /\ stack[i].seen.failed = 3 => stack[i].pc \in {"loop", "ret"}
          /\ (stack[i].seen.failed = 3 /\ stack[i].pc = "ret") =>
                (stack[i].err = "nosession" /\ stack[i].seen.sbdix = 3)
          /\ (stack[i].pc = "ret" /\ stack[i].err = "nosession") =>
                (stack[i].seen.failed = 3 /\ stack[i].seen.sbdix = 3)
    /\ status = "done" =>
          /\ result.err = stack[1].err
          /\ result.incoming = stack[1].incoming
          /\ Len(result.incoming) = stack[1].seen.got

\* A call that returned the retry-exhausted error after 3 AT+SBDIX, with the
\* two messages it retrieved in attempts that did not succeed.
C1_Witness ==
    /\ status = "done" /\ result.err = "nosession"
    /\ stack[1].seen.sbdix = 3 /\ stack[1].seen.failed = 3
    /\ result.incoming = <<PayloadABC, PayloadABC>>

\* C2: when a top-level call of AttemptSession has returned, the list it
\* returned holds every non-empty message a retrieval gave during the call,
\* those of nested invocations included.
C2_NoRetrievedMessageLost ==
    status = "done" =>
       \A m \in obs.retrieved : \E i \in 1..Len(result.incoming) : result.incoming[i] = m

\* C3: when a top-level call of AttemptSession has returned and a retrieval
\* failed during the call, in the outer or in a nested invocation, the call
\* returned that error.
C3_RetrievalErrorReturned ==
    (status = "done" /\ obs.retrieveErr # "nil") => result.err = obs.retrieveErr

\* The status line of the current iteration of f reports a message waiting.
Waiting(f) == f.sr.MtStatus = 1 /\ f.sr.MtLength > 0

\* The retrievals of one loop iteration of f: AT+SBDRB is written only after
\* a status line was parsed and its OK read, at most once, and once the
\* iteration is past that point exactly once if the line reported
\* MtStatus = 1 and MtLength > 0 and not at all otherwise.
OneRetrievalPerReply(f) ==
    /\ Written(f, CmdSBDRB) <= 1
    /\ Written(f, CmdSBDRB) = 1 => (f.seen.parsed /\ Waiting(f) /\ f.pc # "clear")
    /\ (f.seen.parsed /\ f.pc \in {"drain", "wait", "check", "loop", "ret"}) =>
          Written(f, CmdSBDRB) = IF Waiting(f) THEN 1 ELSE 0

\* The nested invocations of one loop iteration of f: AttemptSession is
\* called at most once, only after a status line with MtQueued > 0 was parsed
\* and its OK read, and after the retrieval if there was one.
NestedAfterRetrieval(f) ==
    /\ Calls(f) <= 1
    /\ Calls(f) = 1 =>
          /\ f.seen.parsed /\ f.sr.MtQueued > 0
          /\ f.pc \in {"wait", "check", "loop", "ret"}
          /\ Written(f, CmdSBDRB) = 1 =>
                Place(f.seen.log, CallAttemptSession) > Place(f.seen.log, CmdSBDRB \o <<CR>>)

\* The first status line of the top-level call was +SBDIX:0, 5, 1, 7, 10, 1
\* and the retrieval it triggered gave a message.
ExampleReply ==
    /\ stack[1].seen.sbdix = 1 /\ stack[1].seen.parsed
    /\ stack[1].sr = [MoStatus |-> 0, Msn |-> 5, MtStatus |-> 1, MtMsn |-> 7,
                      MtLength |-> 10, MtQueued |-> 1]
    /\ stack[1].seen.retrieveErr = "nil" /\ stack[1].seen.got = 1

\* The top-level call that got ExampleReply returned success with exactly one
\* message, after one retrieval and one nested invocation.
ExampleOutcome ==
    (status = "done" /\ ExampleReply) =>
       /\ result.err = "nil" /\ Len(result.incoming) = 1
       /\ Written(stack[1], CmdSBDRB) = 1 /\ Calls(stack[1]) = 1

\* C4 as stated: in every invocation, each parsed status line triggers one
\* retrieval exactly if it has MtStatus = 1 and MtLength > 0, and each parsed
\* status line with MtQueued > 0 has triggered exactly one nested invocation,
\* after the retrieval, by the time the invocation is past that point or has
\* returned.
C4_EveryQueuedReplyDrains ==
    /\ \A i \in 1..Len(stack) :
          /\ OneRetrievalPerReply(stack[i])
          /\ NestedAfterRetrieval(stack[i])
          /\ (stack[i].seen.parsed /\ stack[i].pc \in {"wait", "check", "loop", "ret"}) =>
                Calls(stack[i]) = IF stack[i].sr.MtQueued > 0 THEN 1 ELSE 0
    /\ ExampleOutcome

\* C4: in every invocation, each parsed status line triggers one retrieval
\* exactly if it has MtStatus = 1 and MtLength > 0; each parsed status line
\* with MtQueued > 0 whose retrieval, if any, returned no error has triggered
\* exactly one nested invocation, after the retrieval, by the time the
\* invocation is past that point or has returned; a retrieval that returns an
\* error makes the invocation return that error without a nested invocation;
\* an invocation that called AttemptSession does nothing until the nested
\* invocation has returned.
C4_RetrievalThenDrain ==
    /\ \A i \in 1..Len(stack) :
          /\ OneRetrievalPerReply(stack[i])
          /\ NestedAfterRetrieval(stack[i])
          /\ (stack[i].seen.parsed /\ NoRetrievalError(stack[i])
                /\ stack[i].pc \in {"wait", "check", "loop", "ret"}) =>
                Calls(stack[i]) = IF stack[i].sr.MtQueued > 0 THEN 1 ELSE 0
          /\ ~NoRetrievalError(stack[i]) =>
                /\ stack[i].pc = "ret" /\ stack[i].err = stack[i].seen.retrieveErr
                /\ Calls(stack[i]) = 0
          /\ i < Len(stack) <=> stack[i].pc = "wait"
    /\ ExampleOutcome

\* The top-level call returned success with one message after the status line
\* +SBDIX:0, 5, 1, 7, 10, 1, one retrieval and one nested invocation.
C4_Witness ==
    /\ status = "done" /\ ExampleReply
    /\ result = [incoming |-> <<PayloadABC>>, err |-> "nil"]
    /\ Calls(stack[1]) = 1

\* C5: in every invocation, once the status line of an attempt is parsed and
\* its OK read, the attempt is successful exactly if MoStatus <= 4 and
\* AT+SBDD0 has been written once in that case and not at all otherwise,
\* after the AT+SBDIX and before any AT+SBDRB; an attempt whose status line
\* was not parsed or whose OK was not read is not successful and writes no
\* AT+SBDD0; a successful attempt whose retrieval, if any, returned no error
\* makes the invocation return no error, whatever ClearMoBuffer returned.
C5_SuccessClearsBestEffort ==
    \A i \in 1..Len(stack) :
       /\ ~stack[i].seen.parsed =>
             (~stack[i].success /\ Written(stack[i], CmdSBDD0) = 0)
       /\ stack[i].pc = "clear" =>
             (stack[i].seen.parsed /\ stack[i].sr.MoStatus <= 4
                /\ ~stack[i].success /\ Written(stack[i], CmdSBDD0) <= 1)
       /\ (stack[i].seen.parsed /\ stack[i].pc # "clear") =>
             /\ stack[i].success <=> stack[i].sr.MoStatus <= 4
             /\ Written(stack[i], CmdSBDD0) = IF stack[i].sr.MoStatus <= 4 THEN 1 ELSE 0
       /\ Written(stack[i], CmdSBDD0) = 1 =>
             /\ stack[i].seen.log[1] = CmdSBDIX \o <<CR>>
             /\ stack[i].seen.log[2] = CmdSBDD0 \o <<CR>>
       /\ (stack[i].pc = "ret" /\ stack[i].success /\ NoRetrievalError(stack[i])) =>
             stack[i].err = "nil"
       /\ (stack[i].pc = "ret" /\ stack[i].seen.parsed /\ stack[i].err = "nil") =>
             stack[i].success

\* The top-level call returned success after a status line with MoStatus <= 4,
\* MtStatus # 1 and MtQueued = 0 although ClearMoBuffer returned an error.
C5_Witness ==
    /\ status = "done" /\ result.err = "nil"
    /\ stack[1].seen.parsed /\ stack[1].sr.MoStatus <= 4
    /\ stack[1].sr.MtStatus # 1 /\ stack[1].sr.MtQueued = 0
    /\ stack[1].seen.clearErr = "mismatch"
    /\ Written(stack[1], CmdSBDD0) = 1

\* The AT+SBDIX commands the invocations still running have written.
SessionsAttempted ==
    IF Len(stack) = 1 THEN stack[1].seen.sbdix
    ELSE (Len(stack) - 1) + stack[Len(stack)].seen.sbdix

\* As long as the device has answered every command and every status line
\* has reported MtQueued > 0, no invocation of AttemptSession has returned,
\* stopped or blocked: each invocation but the innermost has written one
\* AT+SBDIX and waits for the invocation it started, each invocation started
\* with 3 attempts of its own, and the innermost is at a step it can take.
NoReturnWhileQueued ==
    (op = "session" /\ obs.allQueued) =>
       /\ status = "running"
       /\ \A i \in 1..Len(stack) :
             /\ stack[i].pc # "ret"
             /\ stack[i].attempts + stack[i].seen.sbdix = 3
             /\ i < Len(stack) => (stack[i].seen.sbdix = 1 /\ stack[i].pc = "wait")
       /\ stack[Len(stack)].pc \in {"loop", "clear", "mt", "drain"}
       /\ stack[Len(stack)].pc = "loop" => stack[Len(stack)].attempts = 3
       /\ SessionsAttempted = Len(stack) - (IF stack[Len(stack)].pc = "loop" THEN 1 ELSE 0)

\* How far the recursion has got: its depth, and within the innermost
\* invocation the place in the loop body.
DrainRank ==
    4 * Len(stack)
    + (CASE stack[Len(stack)].pc = "loop" -> 0
         [] stack[Len(stack)].pc = "clear" -> 1
         [] stack[Len(stack)].pc = "mt" -> 2
         [] OTHER -> 3)

\* C6: against a device that answers every command and reports MtQueued > 0
\* in every status line, a top-level call of AttemptSession never returns:
\* no invocation returns, every nested invocation starts with 3 attempts of
\* its own, and every step takes the recursion further, never back, the
\* number of AT+SBDIX written growing with the depth; nothing in the program
\* bounds the depth.
C6_DrainNeverReturns ==
    /\ []NoReturnWhileQueued
    /\ [][(op = "session" /\ obs.allQueued /\ obs'.allQueued) =>
             (DrainRank' > DrainRank /\ SessionsAttempted' >= SessionsAttempted)]_vars

\* Against such a device the recursion has reached the depth MaxDepth: every
\* invocation but the innermost, the nested ones among them, has read a
\* status line with MtQueued > 0 on its first attempt and waits for the
\* invocation it started, and the innermost has all of its 3 attempts.
C6_Witness ==
    /\ obs.allQueued /\ Len(stack) = MaxDepth /\ MaxDepth > 2
    /\ \A i \in 1..(MaxDepth - 1) :
          /\ stack[i].pc = "wait" /\ stack[i].sr.MtQueued > 0
          /\ stack[i].attempts = 2 /\ stack[i].seen.sbdix = 1
    /\ stack[MaxDepth].attempts = 3 /\ stack[MaxDepth].pc = "loop"
    /\ SessionsAttempted = MaxDepth - 1

---------------------------------------------------------------------------
(* Properties of AttemptConnection *)

\* The number of times command was written to the port, with its carriage return.
Count(command) ==
    Cardinality({i \in 1..Len(obs.writes) : obs.writes[i] = command \o <<CR>>})

\* C7: against a device that answers every AT-MSSTM probe (echo, a reply
\* line, OK) but never with a valid time, AttemptConnection is never blocked
\* in a read, sends no AT+CSQ, has sent exactly one AT-MSSTM per attempt it
\* has used up, and so returns, after exactly 20 probes, the retry-exhausted
\* error; no call sends more than 20 AT-MSSTM.
C7_TimeExhaustedAfterTwentyProbes ==
    /\ Count(CmdMSSTM) <= 20
    /\ obs.timeNeverValid =>
          /\ status # "hung"
          /\ Count(CmdCSQ) = 0
          /\ conn.timeAttempts >= 0
          /\ Count(CmdMSSTM) = 20 - conn.timeAttempts
          /\ status = "running" => conn.pc = "time"
          /\ status = "done" =>
                /\ result.err = "noconnection"
                /\ Count(CmdMSSTM) = 20

\* AttemptConnection returned after 20 probes that were all answered without
\* a valid time.
C7_Witness ==
    /\ status = "done" /\ obs.timeNeverValid
    /\ Count(CmdMSSTM) = 20 /\ result.err = "noconnection"

\* C8: one call of AttemptConnection sends at most 10 AT+CSQ, and when it
\* fails for want of signal it has sent exactly 10.
C8_AtMostTenSignalProbes ==
    /\ Count(CmdCSQ) <= 10
    /\ (status = "done" /\ result.err = "nosignal") => Count(CmdCSQ) = 10

\* C9: whenever the last signal probe of AttemptConnection completed without
\* error and reported a value >= 2, the call has returned success, that
\* probe's AT+CSQ being its last write.
C9_GoodSignalSucceeds ==
    (op = "connection" /\ obs.probeErr = "nil" /\ conn.signal >= 2) =>
       /\ status = "done" /\ result.err = "nil"
       /\ obs.writes[Len(obs.writes)] = CmdCSQ \o <<CR>>

\* C10: every AT+CSQ is written after the AT-MSSTM whose reply was accepted
\* as a valid time, no AT-MSSTM is written after that one, and once a signal
\* probe has returned an error the call has returned with that error, that
\* probe's AT+CSQ being the last write.
C10_PhasesInSequence ==
    /\ \A i \in 1..Len(obs.writes) :
          /\ obs.writes[i] = CmdCSQ \o <<CR>> => (obs.acceptedAt > 0 /\ i > obs.acceptedAt)
          /\ obs.writes[i] = CmdMSSTM \o <<CR>> => (obs.acceptedAt = 0 \/ i <= obs.acceptedAt)
    /\ obs.acceptedAt > 0 => obs.writes[obs.acceptedAt] = CmdMSSTM \o <<CR>>
    /\ obs.probeErr # "nil" =>
          /\ status = "done"
          /\ result.err = obs.probeErr
          /\ obs.writes[Len(obs.writes)] = CmdCSQ \o <<CR>>

\* A call that passed the first phase at its third time probe and ended at
\* its second signal probe, which returned an error.
C10_Witness ==
    /\ status = "done" /\ obs.acceptedAt = 3
    /\ Count(CmdCSQ) = 2 /\ obs.probeErr = "mismatch" /\ result.err = "mismatch"

---------------------------------------------------------------------------
(* Properties of QueueMessage *)

\* The lines QueueMessage has read: those the device sent that are no longer
\* in the scanner, trimmed, the blank ones left out.
NonBlank(l) == TrimSpace(l) # <<>>
Consumed(emitted, rx) == SelectSeq(SubSeq(emitted, 1, Len(emitted) - Len(rx)), NonBlank)
LinesRead == [i \in 1..Len(Consumed(stack[1].emitted, port.rx)) |->
                 TrimSpace(Consumed(stack[1].emitted, port.rx)[i])]

\* The lines of a handshake that succeeds: the echo, READY, 0 and OK.
Handshake == <<CmdSBDWB \o Dec(Len(stack[1].message)), StrREADY, StrZero, StrOK>>

\* The number of lines read, from the first on, that are those of Handshake.
Matched ==
    Cardinality({k \in 1..4 : k <= Len(LinesRead)
                              /\ \A j \in 1..k : LinesRead[j] = Handshake[j]})

\* C11: QueueMessage with a message of more than 340 bytes returns the length
\* error and has written nothing to the port and read nothing from it; with a
\* message of 0..340 bytes it does not return that error, and its first write
\* is AT+SBDWB=<length of the message> and a carriage return.
C11_LongMessageRejectedWithoutIO ==
    op = "queue" =>
       /\ Len(stack[1].message) > 340 =>
             /\ stack[1].writes = <<>> /\ stack[1].emitted = <<>> /\ port = NewPort
             /\ status # "hung"
             /\ status = "done" => result.err = "toolong"
       /\ Len(stack[1].message) <= 340 =>
             /\ status = "done" => result.err # "toolong"
             /\ stack[1].pc # "start" =>
                   /\ stack[1].writes # <<>>
                   /\ stack[1].writes[1]
                         = CmdSBDWB \o Dec(Len(stack[1].message)) \o <<CR>>

\* QueueMessage returned the length error for a message of 341 bytes.
C11_Witness ==
    /\ op = "queue" /\ status = "done" /\ Len(stack[1].message) = 341
    /\ result.err = "toolong" /\ stack[1].writes = <<>> /\ port = NewPort

\* The sum of the bytes of s at places lo..hi.
RECURSIVE ByteSum(_, _, _)
ByteSum(s, lo, hi) ==
    IF lo > hi THEN 0
    ELSE IF lo = hi THEN s[lo]
    ELSE ByteSum(s, lo, (lo + hi) \div 2) + ByteSum(s, (lo + hi) \div 2 + 1, hi)

\* C12: once QueueMessage has written the message, it has written after it
\* exactly two more times, one byte each: the high byte and then the low
\* byte of the sum of the message's bytes mod 65536.
C12_ChecksumTwoRawBytes ==
    (op = "queue" /\ Len(stack[1].writes) > 1) =>
       /\ Len(stack[1].writes) = 4
       /\ stack[1].writes[2] = stack[1].message
       /\ stack[1].writes[3]
             = <<(ByteSum(stack[1].message, 1, Len(stack[1].message)) % 65536) \div 256>>
       /\ stack[1].writes[4]
             = <<(ByteSum(stack[1].message, 1, Len(stack[1].message)) % 65536) % 256>>

\* C13: QueueMessage writes the message and the checksum only after it has
\* read the echo of its command and then READY, and not at all otherwise; it
\* returns success only after reading exactly the echo, READY, 0 and OK; when
\* a line it reads is not the expected one (or the stream ends instead) it
\* returns the mismatch error, having read no line after that one and written
\* nothing after it.
C13_HandshakeInOrder ==
    op = "queue" =>
       /\ Len(stack[1].writes) > 1 => (Len(stack[1].writes) = 4 /\ Matched >= 2)
       /\ Matched < 2 => Len(stack[1].writes) <= 1
       /\ (status = "done" /\ result.err = "nil") => LinesRead = Handshake
       /\ (status = "done" /\ Len(LinesRead) > Matched) => result.err = "mismatch"
       /\ (status = "done" /\ result.err = "mismatch") =>
             /\ Matched < 4
             /\ Len(LinesRead) <= Matched + 1
             /\ Len(stack[1].writes) = IF Matched < 2 THEN 1 ELSE 4

\* QueueMessage returned the mismatch error after the status line 1, which it
\* read after the echo and READY and after writing message and checksum.
C13_Witness ==
    /\ op = "queue" /\ status = "done" /\ result.err = "mismatch"
    /\ Matched = 2 /\ Len(LinesRead) = 3 /\ LinesRead[3] = <<49>>
    /\ Len(stack[1].writes) = 4

\* C14: when QueueMessage has returned and a write of the message or of a
\* checksum character had failed, it returned an error.
C14_WriteFailureIsFatal ==
    (op = "queue" /\ status = "done" /\ stack[1].failed) => result.err # "nil"

---------------------------------------------------------------------------
(* Properties of ParseSbdixReply *)

\* The integer a field stands for, when it is one of the integer fields.
FieldValue(tok) == IF tok = <<53>> THEN 5 ELSE IF tok = <<45, 49>> THEN -1 ELSE 12

\* C15: ParseSbdixReply never panics; it returns a reply, holding the six
\* integers in the order MoStatus, Msn, MtStatus, MtMsn, MtLength, MtQueued,
\* when the text after the prefix is exactly six integer fields, and returns
\* an error for fewer fields, for more fields and for a field that is no
\* integer.
C15_ExactlySixIntegerFields ==
    (op = "parse" /\ stack[1].pc = "ret") =>
       /\ status = "done"
       /\ IF Len(stack[1].fields) = 6 /\ \A i \in 1..6 : stack[1].fields[i] # <<120>>
          THEN /\ result.err = "nil"
               /\ stack[1].out.sr =
                     [MoStatus |-> FieldValue(stack[1].fields[1]),
                      Msn |-> FieldValue(stack[1].fields[2]),
                      MtStatus |-> FieldValue(stack[1].fields[3]),
                      MtMsn |-> FieldValue(stack[1].fields[4]),
                      MtLength |-> FieldValue(stack[1].fields[5]),
                      MtQueued |-> FieldValue(stack[1].fields[6])]
          ELSE result.err = "numerror"

---------------------------------------------------------------------------
(* Properties of ReadLine *)

\* The places of the tokens of rx that are not blank.
Full(rx) == {i \in 1..Len(rx) : TrimSpace(rx[i]) # <<>>}

\* C16: ReadLine returns the first token that is not blank, trimmed, with no
\* error, leaving the tokens after it unread; when there is none it waits on
\* an open stream, returns the empty line with no error at end of file, and
\* returns an error when the read failed.
C16_ReadFailureIsAnError ==
    (op = "read" /\ stack[1].pc = "ret") =>
       IF Full(stack[1].stream.rx) # {}
       THEN /\ status = "done" /\ result.err = "nil"
            /\ result.incoming = TrimSpace(stack[1].stream.rx[Min(Full(stack[1].stream.rx))])
            /\ port.rx = SubSeq(stack[1].stream.rx, Min(Full(stack[1].stream.rx)) + 1,
                                Len(stack[1].stream.rx))
       ELSE /\ stack[1].stream.end = "open" => status = "hung"
            /\ stack[1].stream.end = "eof" =>
                  (status = "done" /\ result.incoming = <<>> /\ result.err = "nil")
            /\ stack[1].stream.end = "err" =>
                  (status = "done" /\ result.err \notin {"nil", "none"})

---------------------------------------------------------------------------
(* Properties of single operations *)

\* The lines a call reads of those the device emitted: the ones that are not
\* blank, trimmed.
Said(lines) == [i \in 1..Len(SelectSeq(lines, NonBlank)) |->
                   TrimSpace(SelectSeq(lines, NonBlank)[i])]

\* The first call of the caller was made, and its write succeeded.
Answered(name) == op = name /\ stack[1].pc # "start" /\ stack[1].answer.wr = "ok"

\* The echo of AT+SBDRB.
EchoSBDRB == CmdSBDRB \o <<CR>>

\* The places of line at which the echo of AT+SBDRB begins (0-based).
EchoPlaces(line) ==
    {i \in 0..(Len(line) - Len(EchoSBDRB)) : SubSeq(line, i + 1, i + Len(EchoSBDRB)) = EchoSBDRB}

\* line without the first echo of AT+SBDRB in it, wherever it is, and then
\* without white space at either end.
EchoRemoved(line) ==
    IF EchoPlaces(line) = {} THEN TrimSpace(line)
    ELSE TrimSpace(SubSeq(line, 1, Min(EchoPlaces(line)))
                   \o SubSeq(line, Min(EchoPlaces(line)) + Len(EchoSBDRB) + 1, Len(line)))

\* line without the echo of AT+SBDRB it starts with, if it starts with one.
LeadingEchoRemoved(line) ==
    IF Len(line) >= Len(EchoSBDRB) /\ SubSeq(line, 1, Len(EchoSBDRB)) = EchoSBDRB
    THEN SubSeq(line, Len(EchoSBDRB) + 1, Len(line))
    ELSE line

\* rest without its first 2 and last 2 bytes when it has more than 4 bytes,
\* empty otherwise.
Unframed(rest) == IF Len(rest) > 4 THEN SubSeq(rest, 3, Len(rest) - 2) ELSE <<>>

\* ProcessMtMessage returned what(line) for the line it read when the next
\* line was OK, and an error with an empty message otherwise.
Retrieved(payload) ==
    /\ status = "hung" <=>
          (Len(Said(stack[1].answer.lines)) < 2 /\ stack[1].answer.end = "open")
    /\ status # "hung" =>
          IF Len(Said(stack[1].answer.lines)) >= 2 /\ Said(stack[1].answer.lines)[2] = StrOK
          THEN stack[1].err = "nil" /\ stack[1].value = payload
          ELSE stack[1].err = "expectedok" /\ stack[1].value = <<>>

\* C17 as stated: ProcessMtMessage returns, when the next line is OK, the
\* line it read without a leading echo of AT+SBDRB and without the first 2
\* and last 2 bytes of what remains (empty when 4 bytes or fewer remain), and
\* otherwise an error with an empty message.
C17_LeadingEchoStripped ==
    Answered("retrieve") =>
       Retrieved(Unframed(LeadingEchoRemoved(Said(stack[1].answer.lines)[1])))

\* C17: ProcessMtMessage returns, when the next line is OK, the line it read
\* without the first echo of AT+SBDRB in it, without white space at either
\* end of what remains, and without the first 2 and last 2 bytes of that
\* (empty when 4 bytes or fewer remain), whatever those 4 bytes are; otherwise
\* it returns an error with an empty message.
C17_EchoRemovedTrimmedUnframed ==
    Answered("retrieve") =>
       Retrieved(Unframed(EchoRemoved(Said(stack[1].answer.lines)[1])))

\* ProcessMtMessage returned "cd" for the line of the echo, a space and
\* "abcdef", followed by OK.
C17_Witness ==
    /\ Answered("retrieve") /\ status # "hung"
    /\ stack[1].answer.lines = <<EchoSBDRB \o <<32, 97, 98, 99, 100, 101, 102>>, StrOK>>
    /\ stack[1].err = "nil" /\ stack[1].value = <<99, 100>>

\* The reply to AT+CSQ has 6 characters and contains +CSQ.
SignalShape(reply) ==
    /\ Len(reply) = 6
    /\ \E i \in 0..2 : SubSeq(reply, i + 1, i + 4) = <<43, 67, 83, 81>>

\* GetSignalStrength, the device having sent the echo and a reply line,
\* returns a digit exactly when accepted holds of the lines and then the
\* value of the reply's 6th character; it returns an error and -1 for a
\* reply not of the shape, and an error for a 6th character that is no digit.
SignalReturned(accepted) ==
    (/\ Len(Said(stack[1].answer.lines)) >= 2
     /\ Said(stack[1].answer.lines)[1] = CmdCSQ
     /\ status # "hung") =>
       /\ stack[1].err = "nil" <=> accepted
       /\ stack[1].err = "nil" => stack[1].value = Said(stack[1].answer.lines)[2][6] - 48
       /\ stack[1].err # "nil" => stack[1].value = -1

\* C18 as stated: GetSignalStrength returns the digit d exactly when the
\* reply is +CSQ:d and the next line is OK, and otherwise an error and -1.
C18_DigitOnlyForCsqColonDigit ==
    Answered("signal") =>
       SignalReturned(/\ Len(Said(stack[1].answer.lines)) >= 3
                      /\ Said(stack[1].answer.lines)[3] = StrOK
                      /\ Len(Said(stack[1].answer.lines)[2]) = 6
                      /\ SubSeq(Said(stack[1].answer.lines)[2], 1, 5) = <<43, 67, 83, 81, 58>>
                      /\ Said(stack[1].answer.lines)[2][6] \in 48..57)

\* C18: GetSignalStrength returns the digit d exactly when the reply has 6
\* characters, contains +CSQ and ends in d, and the next line is OK; a reply
\* of another length or without +CSQ, and one whose 6th character is no
\* digit, is rejected with an error and the value -1.
C18_DigitForSixCharactersWithCsq ==
    Answered("signal") =>
       SignalReturned(/\ Len(Said(stack[1].answer.lines)) >= 3
                      /\ Said(stack[1].answer.lines)[3] = StrOK
                      /\ SignalShape(Said(stack[1].answer.lines)[2])
                      /\ Said(stack[1].answer.lines)[2][6] \in 48..57)

\* GetSignalStrength rejected the reply +CSQ:55 with an error and -1.
C18_Witness ==
    /\ Answered("signal") /\ status # "hung"
    /\ Said(stack[1].answer.lines) = <<CmdCSQ, <<43, 67, 83, 81, 58, 53, 53>>, StrOK>>
    /\ stack[1].err = "unexpected" /\ stack[1].value = -1

\* C19: against a device that answers AT+SBDD0 with the echo and one OK,
\* ClearMoBuffer returns without error having read those two lines and no
\* other, and the SendAndReadReply that follows reads its own echo first.
C19_ClearReadsOnlyItsLines ==
    (Answered("clear") /\ stack[1].answer = Reaction("ok", <<CmdSBDD0, StrOK>>, "open")) =>
       /\ status # "hung"
       /\ stack[1].err = "nil"
       /\ stack[1].left = <<>>
       /\ stack[1].pc = "ret" => stack[1].follow.err # "mismatch"

\* C20: when the device answered with the echo, one reply line and OK, and
\* IsNetworkTimeValid or GetSignalStrength rejected the reply line as
\* malformed, the OK has been read too, and the SendAndReadReply that follows
\* reads its own echo first.
C20_RejectedReplyStaysInStep ==
    (/\ Answered("time") \/ Answered("signal")
     /\ stack[1].answer.end = "open"
     /\ Len(Said(stack[1].answer.lines)) = 3
     /\ Said(stack[1].answer.lines)[1] = (IF op = "time" THEN CmdMSSTM ELSE CmdCSQ)
     /\ Said(stack[1].answer.lines)[3] = StrOK
     /\ stack[1].err = "unexpected") =>
       /\ stack[1].left = <<>>
       /\ stack[1].pc = "ret" => stack[1].follow.err # "mismatch"

====
